---- MODULE Spec2Model ----
(***************************************************************************)
(* A model of the sgf-parser crate: the property codec (token.rs), the     *)
(* node serializer (node.rs), the structural parser (parser.rs) and the    *)
(* tree model (model.rs).                                                  *)
(*                                                                         *)
(* Text is modelled as a sequence of Unicode code points (naturals below   *)
(* 256); a Rust &str operation that works on bytes (len, split_at, slices, *)
(* as_bytes) is computed on the UTF-8 encoding of that sequence.           *)
(***************************************************************************)
EXTENDS Integers, Sequences, FiniteSets, TLC

VARIABLES
    overflow_checks, \* the build profile: TRUE when u8 arithmetic overflow panics
    pc,              \* position of the driver in the scenario being run
    ident,           \* codec: the identifier handed to from_pair
    value,           \* codec: the value handed to from_pair
    token,           \* codec: the token from_pair returned (or the panic marker)
    text,            \* codec: the text the token encodes to
    token2,          \* codec: the token decoded again from the encoded text
    node,            \* node: the tokens of a GameNode
    node_text,       \* node: the text the node renders to
    tree,            \* the GameTree the scenario is about (rendered, or traversed)
    sgf,             \* parse: the text handed to parse
    edited,          \* parse: whether the text was changed after rendering
    result,          \* parse: what parse returned for the text
    other,           \* parse: a second tree with its text and its parse result
    iterator,        \* traversal: the GameTreeIterator (tree, index, variation)
    yielded,         \* traversal: the nodes next() has returned so far
    last,            \* traversal: the last call on the iterator, what it was made
                     \* on and what it returned
    chosen,          \* traversal: the index of the last pick_variation call that
                     \* returned Ok since the current tree was entered, -1 if none
    picked,          \* traversal: whether pick_variation was called on the iterator
    answer           \* traversal: what a query method of the tree returned

codecVars == <<ident, value, token, text, token2>>

nodeVars == <<node, node_text>>

parseVars == <<tree, sgf, edited, result, other>>

iterVars == <<iterator, yielded, last, chosen, picked, answer>>

vars == <<overflow_checks, pc, codecVars, nodeVars, parseVars, iterVars>>

-----------------------------------------------------------------------------
(* Characters and strings *)

\* The printable ASCII characters in code order, starting at code 32 (the double
\* quote, the backslash and the backtick are held by name).
Printable ==
    <<" ", "!", "QUOTE", "#", "$", "%", "&", "'", "(", ")", "*", "+", ",", "-", ".", "/",
      "0", "1", "2", "3", "4", "5", "6", "7", "8", "9", ":", ";", "<", "=", ">", "?",
      "@", "A", "B", "C", "D", "E", "F", "G", "H", "I", "J", "K", "L", "M", "N", "O",
      "P", "Q", "R", "S", "T", "U", "V", "W", "X", "Y", "Z", "[", "BACKSLASH", "]", "^", "_",
      "BACKTICK", "a", "b", "c", "d", "e", "f", "g", "h", "i", "j", "k", "l", "m", "n", "o",
      "p", "q", "r", "s", "t", "u", "v", "w", "x", "y", "z", "{", "|", "}", "~">>

\* The code point of a printable ASCII character.
Ord(ch) == 31 + (CHOOSE i \in 1..Len(Printable) : Printable[i] = ch)

\* A string literal, written as a tuple of characters.
Str(t) == [i \in 1..Len(t) |-> Ord(t[i])]

\* char::is_uppercase, on the code points below 256.
IsUpper(c) == (c >= 65 /\ c <= 90) \/ (c >= 192 /\ c <= 214) \/ (c >= 216 /\ c <= 222)

\* char::to_lowercase, on the code points below 256.
LowerChar(c) == IF IsUpper(c) THEN c + 32 ELSE c

\* str::to_lowercase.
ToLower(s) == [i \in 1..Len(s) |-> LowerChar(s[i])]

IsDigit(c) == c >= 48 /\ c <= 57

\* The UTF-8 encoding of one code point below 2048.
Utf8(c) == IF c < 128 THEN <<c>> ELSE <<192 + (c \div 64), 128 + (c % 64)>>

RECURSIVE Bytes(_)
\* str::as_bytes.
Bytes(s) == IF s = <<>> THEN <<>> ELSE Utf8(Head(s)) \o Bytes(Tail(s))

\* str::len: the length in bytes.
ByteLen(s) == Len(Bytes(s))

\* The characters of s from position i on (1-based).
Drop(s, n) == SubSeq(s, n + 1, Len(s))

Take(s, n) == SubSeq(s, 1, n)

\* str::find(char): the 1-based position of the first c in s, 0 when absent.
Find(s, c) ==
    IF \E i \in 1..Len(s) : s[i] = c
    THEN CHOOSE i \in 1..Len(s) : s[i] = c /\ \A j \in 1..(i - 1) : s[j] # c
    ELSE 0

\* The number of characters of s whose encoding ends at byte n, or -1 when byte
\* offset n is not a character boundary of s (str::is_char_boundary).
CharsAtByte(s, n) ==
    IF \E k \in 0..Len(s) : ByteLen(Take(s, k)) = n
    THEN CHOOSE k \in 0..Len(s) : ByteLen(Take(s, k)) = n
    ELSE -1

\* str::starts_with.
StartsWith(s, p) == Len(p) <= Len(s) /\ Take(s, Len(p)) = p

\* Body applied to the value of v, which is computed once.
WithValue(v, Body(_)) == CHOOSE out \in {Body(x) : x \in {v}} : TRUE

RECURSIVE Concat(_)
\* The concatenation of a sequence of strings (join("")).
Concat(ss) == IF ss = <<>> THEN <<>> ELSE Head(ss) \o Concat(Tail(ss))

-----------------------------------------------------------------------------
(* Numbers.  An unsigned integer is held as its decimal digits without      *)
(* leading zeros, which is in bijection with its value and is what Display  *)
(* prints; this keeps the full u32 range exact.                             *)

RECURSIVE StripZeros(_)
StripZeros(d) ==
    IF Len(d) > 1 /\ Head(d) = 48 THEN StripZeros(Tail(d)) ELSE d

RECURSIVE DigitsLess(_, _)
\* a < b for two digit strings of the same length.
DigitsLess(a, b) ==
    IF a = <<>> THEN FALSE
    ELSE IF Head(a) # Head(b) THEN Head(a) < Head(b)
    ELSE DigitsLess(Tail(a), Tail(b))

\* Whether the canonical digit string d is at most the canonical digit string max.
AtMost(d, max) ==
    \/ Len(d) < Len(max)
    \/ Len(d) = Len(max) /\ ~DigitsLess(max, d)

U32Max == Str(<<"4", "2", "9", "4", "9", "6", "7", "2", "9", "5">>)
U8Max == Str(<<"2", "5", "5">>)

\* <unsigned>::from_str: an optional '+', then one or more ASCII digits, and the
\* value must not exceed max.
ParseUnsigned(s, max) ==
    LET d == IF s # <<>> /\ s[1] = 43 THEN Tail(s) ELSE s
    IN IF d = <<>> \/ \E i \in 1..Len(d) : ~IsDigit(d[i])
       THEN [ok |-> FALSE]
       ELSE IF AtMost(StripZeros(d), max)
            THEN [ok |-> TRUE, v |-> StripZeros(d)]
            ELSE [ok |-> FALSE]

ParseU32(s) == ParseUnsigned(s, U32Max)
ParseU8(s) == ParseUnsigned(s, U8Max)

RECURSIVE CountDigits(_)
\* The number of ASCII digits s starts with.
CountDigits(s) ==
    IF s # <<>> /\ IsDigit(Head(s)) THEN 1 + CountDigits(Tail(s)) ELSE 0

RECURSIVE StripTrailingZeros(_)
StripTrailingZeros(d) ==
    IF Len(d) > 1 /\ d[Len(d)] = 48 THEN StripTrailingZeros(Take(d, Len(d) - 1)) ELSE d

RECURSIVE DigitsToNat(_)
\* The value of a short digit string.
DigitsToNat(d) ==
    IF d = <<>> THEN 0 ELSE 10 * DigitsToNat(Take(d, Len(d) - 1)) + (d[Len(d)] - 48)

Zeros(n) == [i \in 1..n |-> 48]

(* An f32 is held as NaN, a signed infinity, or a signed decimal mant * 10^exp  *)
(* with mant a digit string without leading or trailing zeros ("0" for zero).   *)
(* This is exact for decimals of at most 6 significant digits inside the f32    *)
(* range, where distinct decimals are distinct f32 values and Display prints    *)
(* the decimal back.                                                            *)
NaN == [k |-> "nan"]
Inf(neg) == [k |-> "inf", neg |-> neg]
Num(neg, mant, exp) == [k |-> "num", neg |-> neg, mant |-> mant, exp |-> exp]

\* The f32 nearest to digits * 10^exp10.
MakeNum(neg, digits, exp10) ==
    LET lead == StripZeros(digits)
        mant == StripTrailingZeros(lead)
        exp == exp10 + (Len(lead) - Len(mant))
    IN IF mant = <<48>> THEN Num(neg, <<48>>, 0)
       ELSE IF Len(mant) + exp > 39 THEN Inf(neg)
       ELSE IF Len(mant) + exp < -45 THEN Num(neg, <<48>>, 0)
       ELSE Num(neg, mant, exp)

\* The exponent part of a float literal: e or E, an optional sign, digits.
ParseExponent(s) ==
    LET signed == Len(s) >= 2 /\ (s[2] = 43 \/ s[2] = 45)
        d == IF signed THEN Drop(s, 2) ELSE Drop(s, 1)
        mag == IF Len(StripZeros(d)) > 3 THEN 999 ELSE DigitsToNat(StripZeros(d))
    IN IF (s[1] # 101 /\ s[1] # 69) \/ d = <<>> \/ CountDigits(d) # Len(d)
       THEN [ok |-> FALSE]
       ELSE [ok |-> TRUE, e |-> IF signed /\ s[2] = 45 THEN 0 - mag ELSE mag]

\* f32::from_str: an optional sign, then inf, infinity or nan in any case, or
\* digits with an optional fraction and an optional exponent.
ParseF32(s) ==
    LET signed == s # <<>> /\ (s[1] = 43 \/ s[1] = 45)
        neg == signed /\ s[1] = 45
        rest == IF signed THEN Tail(s) ELSE s
        low == ToLower(rest)
        ip == CountDigits(rest)
        dot == Len(rest) > ip /\ rest[ip + 1] = 46
        fp == IF dot THEN CountDigits(Drop(rest, ip + 1)) ELSE 0
        after == Drop(rest, ip + (IF dot THEN 1 ELSE 0) + fp)
        digits == SubSeq(rest, 1, ip) \o SubSeq(rest, ip + 2, ip + 1 + fp)
        ex == IF after = <<>> THEN [ok |-> TRUE, e |-> 0] ELSE ParseExponent(after)
    IN IF low = Str(<<"i", "n", "f">>) \/ low = Str(<<"i", "n", "f", "i", "n", "i", "t", "y">>)
       THEN [ok |-> TRUE, v |-> Inf(neg)]
       ELSE IF low = Str(<<"n", "a", "n">>) THEN [ok |-> TRUE, v |-> NaN]
       ELSE IF ip + fp = 0 \/ ~ex.ok THEN [ok |-> FALSE]
       ELSE [ok |-> TRUE, v |-> MakeNum(neg, digits, ex.e - fp)]

\* Display for f32: the shortest decimal that reads back, without an exponent.
ShowF32(f) ==
    IF f.k = "nan" THEN Str(<<"N", "a", "N">>)
    ELSE LET sign == IF f.neg THEN <<45>> ELSE <<>>
         IN IF f.k = "inf" THEN sign \o Str(<<"i", "n", "f">>)
            ELSE IF f.exp >= 0 THEN sign \o f.mant \o Zeros(f.exp)
            ELSE IF Len(f.mant) > 0 - f.exp
                 THEN sign \o Take(f.mant, Len(f.mant) + f.exp) \o <<46>>
                           \o Drop(f.mant, Len(f.mant) + f.exp)
                 ELSE sign \o <<48, 46>> \o Zeros((0 - f.exp) - Len(f.mant)) \o f.mant

\* PartialEq for f32: NaN equals nothing, the two zeros are equal.
F32Eq(a, b) ==
    /\ a.k # "nan" /\ b.k # "nan"
    /\ \/ a = b
       \/ a.k = "num" /\ b.k = "num" /\ a.mant = <<48>> /\ b.mant = <<48>>

-----------------------------------------------------------------------------
(* The property codec: SgfToken::from_pair and its helpers *)

\* The identifiers from_pair dispatches on.
Id ==
    [LB |-> Str(<<"L", "B">>), HA |-> Str(<<"H", "A">>), RU |-> Str(<<"R", "U">>),
     SQ |-> Str(<<"S", "Q">>), TR |-> Str(<<"T", "R">>), AB |-> Str(<<"A", "B">>),
     B |-> Str(<<"B">>), BL |-> Str(<<"B", "L">>), PB |-> Str(<<"P", "B">>),
     BR |-> Str(<<"B", "R">>), AW |-> Str(<<"A", "W">>), W |-> Str(<<"W">>),
     WL |-> Str(<<"W", "L">>), PW |-> Str(<<"P", "W">>), WR |-> Str(<<"W", "R">>),
     RE |-> Str(<<"R", "E">>), KM |-> Str(<<"K", "M">>), SZ |-> Str(<<"S", "Z">>),
     TM |-> Str(<<"T", "M">>), EV |-> Str(<<"E", "V">>), OT |-> Str(<<"O", "T">>),
     C |-> Str(<<"C">>), GN |-> Str(<<"G", "N">>), CR |-> Str(<<"C", "R">>),
     DT |-> Str(<<"D", "T">>), PC |-> Str(<<"P", "C">>), GM |-> Str(<<"G", "M">>),
     CA |-> Str(<<"C", "A">>), OB |-> Str(<<"O", "B">>), OW |-> Str(<<"O", "W">>),
     AP |-> Str(<<"A", "P">>), ST |-> Str(<<"S", "T">>)]

\* The string literals of token.rs.
Lit ==
    [Japanese |-> Str(<<"J", "a", "p", "a", "n", "e", "s", "e">>),
     AGA |-> Str(<<"A", "G", "A">>), NZ |-> Str(<<"N", "Z">>),
     Chinese |-> Str(<<"C", "h", "i", "n", "e", "s", "e">>),
     GOE |-> Str(<<"G", "O", "E">>),
     Void |-> Str(<<"V", "o", "i", "d">>), Draw |-> Str(<<"D", "r", "a", "w">>),
     D |-> Str(<<"D">>), B |-> Str(<<"B">>), W |-> Str(<<"W">>),
     F |-> Str(<<"F">>), Forfeit |-> Str(<<"F", "o", "r", "f", "e", "i", "t">>),
     R |-> Str(<<"R">>), Resign |-> Str(<<"R", "e", "s", "i", "g", "n">>),
     T |-> Str(<<"T">>), Time |-> Str(<<"T", "i", "m", "e">>),
     utf8 |-> Str(<<"u", "t", "f", "-", "8">>), UTF8 |-> Str(<<"U", "T", "F", "-", "8">>),
     O |-> Str(<<"O">>), lbr |-> Str(<<"[">>), rbr |-> Str(<<"]">>),
     colon |-> Str(<<":">>), plus |-> Str(<<"+">>), semi |-> Str(<<";">>),
     d0 |-> Str(<<"0">>), d1 |-> Str(<<"1">>), d2 |-> Str(<<"2">>), d3 |-> Str(<<"3">>)]

\* The marker for a call that panicked instead of returning.
Panicked == [tag |-> "Panic"]

\* u8 subtraction a - b: a panic with overflow checks, wrapping without.
SubU8(a, b) ==
    IF a >= b THEN [st |-> "ok", v |-> a - b]
    ELSE IF overflow_checks THEN [st |-> "panic"]
    ELSE [st |-> "ok", v |-> (a - b) % 256]

\* u8 addition a + b: a panic with overflow checks, wrapping without.
AddU8(a, b) ==
    IF a + b <= 255 THEN [st |-> "ok", v |-> a + b]
    ELSE IF overflow_checks THEN [st |-> "panic"]
    ELSE [st |-> "ok", v |-> (a + b) % 256]

\* A conversion that leaves out the letter i: the letters after it map to one
\* less than their position in the alphabet.
convert_u8_to_coordinate_skipping_i(c) ==
    LET n == SubU8(c, 96)
    IN IF n.st = "ok" /\ n.v >= 9 THEN [n EXCEPT !.v = n.v - 1] ELSE n

convert_u8_to_coordinate(c) == SubU8(c, 96)

str_to_coordinates(input) ==
    IF ByteLen(input) # 2 THEN [st |-> "err"]
    ELSE LET b == Bytes(ToLower(input))
             x == convert_u8_to_coordinate(b[1])
             y == convert_u8_to_coordinate(b[2])
         IN IF x.st = "panic" \/ y.st = "panic" THEN [st |-> "panic"]
            ELSE [st |-> "ok", c |-> <<x.v, y.v>>]

move_str_to_coord(input) ==
    IF input = <<>> THEN [st |-> "ok", a |-> [kind |-> "Pass"]]
    ELSE LET r == str_to_coordinates(input)
         IN IF r.st = "ok" THEN [st |-> "ok", a |-> [kind |-> "Move", x |-> r.c[1], y |-> r.c[2]]]
            ELSE r

\* str::split_at(n): a panic unless n is a character boundary of s.
SplitAt(s, n) ==
    LET k == CharsAtByte(s, n)
    IN IF k < 0 THEN [st |-> "panic"]
       ELSE [st |-> "ok", l |-> Take(s, k), r |-> Drop(s, k)]

split_label_text(input) ==
    IF ByteLen(input) >= 4 THEN SplitAt(input, 2) ELSE [st |-> "none"]

split_size_text(input) ==
    LET index == Find(input, 58)
        width == ParseU32(Take(input, index - 1))
        height == ParseU32(Drop(input, index))
    IN IF index = 0 \/ ~width.ok \/ ~height.ok THEN [ok |-> FALSE]
       ELSE [ok |-> TRUE, w |-> width.v, h |-> height.v]

parse_variation_display_str(input) ==
    LET n == ParseU8(input)
    IN IF ~n.ok THEN [ok |-> FALSE]
       ELSE IF n.v = Lit.d0 THEN [ok |-> TRUE, nodes |-> "Children", on_board_display |-> TRUE]
       ELSE IF n.v = Lit.d1 THEN [ok |-> TRUE, nodes |-> "Siblings", on_board_display |-> TRUE]
       ELSE IF n.v = Lit.d2 THEN [ok |-> TRUE, nodes |-> "Children", on_board_display |-> FALSE]
       ELSE IF n.v = Lit.d3 THEN [ok |-> TRUE, nodes |-> "Siblings", on_board_display |-> FALSE]
       ELSE [ok |-> FALSE]

parse_application_str(input) ==
    LET index == Find(input, 58)
    IN IF index = 0 THEN [ok |-> FALSE]
       ELSE [ok |-> TRUE, name |-> Take(input, index - 1), version |-> Drop(input, index)]

RECURSIVE Split(_, _)
\* A split at the first c only, as str::splitn(2, char) gives it.
SplitOnce(s, c) ==
    LET i == Find(s, c)
    IN IF i = 0 THEN <<s>> ELSE <<Take(s, i - 1), Drop(s, i)>>

\* str::split(char), collected.
Split(s, c) ==
    LET i == Find(s, c)
    IN IF i = 0 THEN <<s>> ELSE <<Take(s, i - 1)>> \o Split(Drop(s, i), c)

parse_outcome_str(s) ==
    IF s = <<>> \/ s = Lit.Void THEN [ok |-> FALSE]
    ELSE IF s = Lit.Draw \/ s = Lit.D THEN [ok |-> TRUE, o |-> [kind |-> "Draw"]]
    ELSE LET winner_option == Split(s, 43)
             left == winner_option[1]
             right == winner_option[2]
             winner == IF left = Lit.B THEN "Black" ELSE "White"
             points == ParseF32(right)
         IN IF Len(winner_option) # 2 THEN [ok |-> FALSE]
            ELSE IF left # Lit.B /\ left # Lit.W THEN [ok |-> FALSE]
            ELSE IF right = Lit.F \/ right = Lit.Forfeit
                 THEN [ok |-> TRUE, o |-> [kind |-> "WinnerByForfeit", color |-> winner]]
            ELSE IF right = Lit.R \/ right = Lit.Resign
                 THEN [ok |-> TRUE, o |-> [kind |-> "WinnerByResign", color |-> winner]]
            ELSE IF right = Lit.T \/ right = Lit.Time
                 THEN [ok |-> TRUE, o |-> [kind |-> "WinnerByTime", color |-> winner]]
            ELSE IF points.ok
                 THEN [ok |-> TRUE,
                       o |-> [kind |-> "WinnerByPoints", color |-> winner, points |-> points.v]]
            ELSE [ok |-> FALSE]

\* RuleSet::from(&str).
RuleSetFrom(s) ==
    IF s = Lit.Japanese THEN [kind |-> "Japanese"]
    ELSE IF s = Lit.AGA THEN [kind |-> "AGA"]
    ELSE IF s = Lit.NZ THEN [kind |-> "NZ"]
    ELSE IF s = Lit.Chinese THEN [kind |-> "Chinese"]
    ELSE IF s = Lit.GOE THEN [kind |-> "GOE"]
    ELSE [kind |-> "Unknown", v |-> s]

\* RuleSet::to_string.
RuleSetToString(r) ==
    IF r.kind = "Japanese" THEN Lit.Japanese
    ELSE IF r.kind = "NZ" THEN Lit.NZ
    ELSE IF r.kind = "GOE" THEN Lit.GOE
    ELSE IF r.kind = "AGA" THEN Lit.AGA
    ELSE IF r.kind = "Chinese" THEN Lit.Chinese
    ELSE r.v

\* SgfToken::Invalid((ident, value)).
Invalid(i, v) == [tag |-> "Invalid", ident |-> i, value |-> v]

\* SgfToken::Unknown((ident, value)).
Unknown(i, v) == [tag |-> "Unknown", ident |-> i, value |-> v]

\* Mutant of Normalize: the identifier is upper-cased instead of filtered.
NormalizeByUppercasing(base_ident) ==
    [k \in 1..Len(base_ident) |->
        IF base_ident[k] >= 97 /\ base_ident[k] <= 122 THEN base_ident[k] - 32
        ELSE base_ident[k]]

\* The identifier from_pair dispatches on: the uppercase characters of base_ident.
Normalize(base_ident) == SelectSeq(base_ident, IsUpper)

\* Mutant of from_pair's fallback arm: Unknown keeps the normalized identifier.
UnknownTokenNormalized(base_ident, v) == Unknown(Normalize(base_ident), v)

\* The fallback arm of from_pair's identifier match.
UnknownToken(base_ident, v) == Unknown(base_ident, v)

\* The token from_pair falls back to when an arm yields None.
InvalidToken(base_ident, v) == Invalid(base_ident, v)

\* The tokens that carry a coordinate decoded by str_to_coordinates.
CoordToken(r, tok, i, v) ==
    IF r.st = "panic" THEN Panicked
    ELSE IF r.st = "ok" THEN [tok EXCEPT !.coordinate = r.c]
    ELSE InvalidToken(i, v)

\* The tokens that carry a u32 read with str::parse.
NumToken(r, tok, i, v) == IF r.ok THEN [tok EXCEPT !.n = r.v] ELSE InvalidToken(i, v)

\* The "LB" arm of from_pair.
LabelToken(i, v) ==
    LET sp == split_label_text(v)
        co == str_to_coordinates(sp.l)
    IN IF sp.st = "none" THEN InvalidToken(i, v)
       ELSE IF sp.st = "panic" THEN Panicked
       ELSE IF co.st = "panic" THEN Panicked
       ELSE IF co.st = "err" THEN InvalidToken(i, v)
       ELSE IF CharsAtByte(sp.r, 1) < 0 THEN Panicked
       ELSE [tag |-> "Label", label |-> Drop(sp.r, 1), coordinate |-> co.c]

\* The "B" and "W" arms of from_pair.
MoveToken(color, i, v) ==
    LET r == move_str_to_coord(v)
    IN IF r.st = "panic" THEN Panicked
       ELSE IF r.st = "ok" THEN [tag |-> "Move", color |-> color, action |-> r.a]
       ELSE InvalidToken(i, v)

\* The "SZ" arm of from_pair.
SizeToken(i, v) ==
    LET sp == split_size_text(v)
        one == ParseU32(v)
    IN IF sp.ok THEN [tag |-> "Size", w |-> sp.w, h |-> sp.h]
       ELSE IF one.ok THEN [tag |-> "Size", w |-> one.v, h |-> one.v]
       ELSE InvalidToken(i, v)

\* SgfToken::from_pair.
from_pair(base_ident, v) ==
    LET id == Normalize(base_ident)
        i == base_ident
        bad == InvalidToken(base_ident, v)
        res == parse_outcome_str(v)
        km == ParseF32(v)
        gm == ParseU8(v)
        ob == ParseU32(v)
        ap == parse_application_str(v)
        st == parse_variation_display_str(v)
    IN CASE id = Id.LB -> LabelToken(i, v)
         [] id = Id.HA -> NumToken(ParseU32(v), [tag |-> "Handicap", n |-> <<>>], i, v)
         [] id = Id.RU -> [tag |-> "Rule", rule |-> RuleSetFrom(v)]
         [] id = Id.SQ -> CoordToken(str_to_coordinates(v),
                                     [tag |-> "Square", coordinate |-> <<>>], i, v)
         [] id = Id.TR -> CoordToken(str_to_coordinates(v),
                                     [tag |-> "Triangle", coordinate |-> <<>>], i, v)
         [] id = Id.AB -> CoordToken(str_to_coordinates(v),
                                     [tag |-> "Add", color |-> "Black", coordinate |-> <<>>], i, v)
         [] id = Id.B -> MoveToken("Black", i, v)
         [] id = Id.BL -> NumToken(ParseU32(v), [tag |-> "Time", color |-> "Black", n |-> <<>>], i, v)
         [] id = Id.PB -> [tag |-> "PlayerName", color |-> "Black", s |-> v]
         [] id = Id.BR -> [tag |-> "PlayerRank", color |-> "Black", s |-> v]
         [] id = Id.AW -> CoordToken(str_to_coordinates(v),
                                     [tag |-> "Add", color |-> "White", coordinate |-> <<>>], i, v)
         [] id = Id.W -> MoveToken("White", i, v)
         [] id = Id.WL -> NumToken(ParseU32(v), [tag |-> "Time", color |-> "White", n |-> <<>>], i, v)
         [] id = Id.PW -> [tag |-> "PlayerName", color |-> "White", s |-> v]
         [] id = Id.WR -> [tag |-> "PlayerRank", color |-> "White", s |-> v]
         [] id = Id.RE -> IF res.ok THEN [tag |-> "Result", outcome |-> res.o] ELSE bad
         [] id = Id.KM -> IF km.ok THEN [tag |-> "Komi", f |-> km.v] ELSE bad
         [] id = Id.SZ -> SizeToken(i, v)
         [] id = Id.TM -> NumToken(ParseU32(v), [tag |-> "TimeLimit", n |-> <<>>], i, v)
         [] id = Id.EV -> [tag |-> "Event", s |-> v]
         [] id = Id.OT -> [tag |-> "Overtime", s |-> v]
         [] id = Id.C -> [tag |-> "Comment", s |-> v]
         [] id = Id.GN -> [tag |-> "GameName", s |-> v]
         [] id = Id.CR -> [tag |-> "Copyright", s |-> v]
         [] id = Id.DT -> [tag |-> "Date", s |-> v]
         [] id = Id.PC -> [tag |-> "Place", s |-> v]
         [] id = Id.GM -> IF ~gm.ok THEN Invalid(i, v)
                          ELSE IF gm.v = Lit.d1 THEN [tag |-> "Game", game |-> [kind |-> "Go"]]
                          ELSE [tag |-> "Game", game |-> [kind |-> "Other", n |-> gm.v]]
         [] id = Id.CA -> IF ToLower(v) = Lit.utf8
                          THEN [tag |-> "Charset", encoding |-> [kind |-> "UTF8"]]
                          ELSE [tag |-> "Charset", encoding |-> [kind |-> "Other", e |-> v]]
         [] id = Id.OB -> IF ob.ok
                          THEN [tag |-> "MovesRemaining", color |-> "Black", n |-> ob.v]
                          ELSE Invalid(i, v)
         [] id = Id.OW -> IF ob.ok
                          THEN [tag |-> "MovesRemaining", color |-> "White", n |-> ob.v]
                          ELSE Invalid(i, v)
         [] id = Id.AP -> IF ap.ok
                          THEN [tag |-> "Application", name |-> ap.name, version |-> ap.version]
                          ELSE bad
         [] id = Id.ST -> IF st.ok
                          THEN [tag |-> "VariationDisplay", nodes |-> st.nodes,
                                on_board_display |-> st.on_board_display]
                          ELSE bad
         [] OTHER -> UnknownToken(base_ident, v)

\* The one-letter name of a color in an identifier or a result.
ColorLetter(color) == IF color = "Black" THEN Lit.B ELSE Lit.W

\* coordinate_to_str.
coordinate_to_str(coordinate) ==
    LET x == AddU8(coordinate[1], 96)
        y == AddU8(coordinate[2], 96)
    IN IF x.st = "panic" \/ y.st = "panic" THEN [st |-> "panic"]
       ELSE [st |-> "ok", s |-> <<x.v, y.v>>]

\* format!("{}[{}]", ident, value).
Prop(i, v) == i \o Lit.lbr \o v \o Lit.rbr

\* A property whose value is a coordinate written by coordinate_to_str.
CoordProp(i, coordinate) ==
    LET c == coordinate_to_str(coordinate)
    IN IF c.st = "panic" THEN [st |-> "panic"] ELSE [st |-> "ok", s |-> Prop(i, c.s)]

Ok(s) == [st |-> "ok", s |-> s]

\* The value text of a Result token.
OutcomeText(o) ==
    IF o.kind = "WinnerByPoints" THEN ColorLetter(o.color) \o Lit.plus \o ShowF32(o.points)
    ELSE IF o.kind = "WinnerByResign" THEN ColorLetter(o.color) \o Lit.plus \o Lit.R
    ELSE IF o.kind = "WinnerByTime" THEN ColorLetter(o.color) \o Lit.plus \o Lit.T
    ELSE IF o.kind = "WinnerByForfeit" THEN ColorLetter(o.color) \o Lit.plus \o Lit.F
    ELSE Lit.Draw

\* The text of an Unknown or Invalid token: its stored identifier and value.
UnknownText(t) == Prop(t.ident, t.value)

\* The text of a Size token.
\* An encoding that writes the width and the height of every size.
SizeTextAlwaysBoth(t) == Prop(Id.SZ, t.w \o Lit.colon \o t.h)

SizeText(t) ==
    IF t.w = t.h THEN Prop(Id.SZ, t.w) ELSE Prop(Id.SZ, t.w \o Lit.colon \o t.h)

\* impl Into<String> for &SgfToken: the text, or a panic.
token_into_string(t) ==
    CASE t.tag = "Label" ->
            LET c == coordinate_to_str(t.coordinate)
            IN IF c.st = "panic" THEN [st |-> "panic"]
               ELSE Ok(Prop(Id.LB, c.s \o Lit.colon \o t.label))
      [] t.tag = "Handicap" -> Ok(Prop(Id.HA, t.n))
      [] t.tag = "Rule" -> Ok(Prop(Id.RU, RuleSetToString(t.rule)))
      [] t.tag = "Result" -> Ok(Prop(Id.RE, OutcomeText(t.outcome)))
      [] t.tag = "Square" -> CoordProp(Id.SQ, t.coordinate)
      [] t.tag = "Triangle" -> CoordProp(Id.TR, t.coordinate)
      [] t.tag = "Add" ->
            CoordProp(IF t.color = "Black" THEN Id.AB ELSE Id.AW, t.coordinate)
      [] t.tag = "Move" ->
            IF t.action.kind = "Pass" THEN Ok(Prop(ColorLetter(t.color), <<>>))
            ELSE CoordProp(ColorLetter(t.color), <<t.action.x, t.action.y>>)
      [] t.tag = "Time" -> Ok(Prop(IF t.color = "Black" THEN Id.BL ELSE Id.WL, t.n))
      [] t.tag = "PlayerName" -> Ok(Prop(IF t.color = "Black" THEN Id.PB ELSE Id.PW, t.s))
      [] t.tag = "PlayerRank" -> Ok(Prop(IF t.color = "Black" THEN Id.BR ELSE Id.WR, t.s))
      [] t.tag = "Komi" -> Ok(Prop(Id.KM, ShowF32(t.f)))
      [] t.tag = "Size" -> Ok(SizeText(t))
      [] t.tag = "TimeLimit" -> Ok(Prop(Id.TM, t.n))
      [] t.tag = "Event" -> Ok(Prop(Id.EV, t.s))
      [] t.tag = "Comment" -> Ok(Prop(Id.C, t.s))
      [] t.tag = "Overtime" -> Ok(Prop(Id.OT, t.s))
      [] t.tag = "GameName" -> Ok(Prop(Id.GN, t.s))
      [] t.tag = "Copyright" -> Ok(Prop(Id.CR, t.s))
      [] t.tag = "Date" -> Ok(Prop(Id.DT, t.s))
      [] t.tag = "Place" -> Ok(Prop(Id.PC, t.s))
      [] t.tag = "Game" ->
            Ok(Prop(Id.GM, IF t.game.kind = "Go" THEN Lit.d1 ELSE t.game.n))
      [] t.tag = "Charset" ->
            Ok(Prop(Id.CA, IF t.encoding.kind = "UTF8" THEN Lit.UTF8 ELSE t.encoding.e))
      [] t.tag = "MovesRemaining" -> Ok(Prop(Lit.O \o ColorLetter(t.color), t.n))
      [] t.tag = "VariationDisplay" ->
            Ok(Prop(Id.ST,
                    IF t.nodes = "Children" /\ t.on_board_display THEN Lit.d0
                    ELSE IF t.nodes = "Siblings" /\ t.on_board_display THEN Lit.d1
                    ELSE IF t.nodes = "Children" THEN Lit.d2
                    ELSE Lit.d3))
      [] t.tag = "Application" -> Ok(Prop(Id.AP, t.name \o Lit.colon \o t.version))
      [] t.tag = "Unknown" -> Ok(UnknownText(t))
      [] t.tag = "Invalid" -> Ok(UnknownText(t))

\* #[derive(PartialEq)] for Outcome.
OutcomeEq(a, b) ==
    /\ a.kind = b.kind
    /\ IF a.kind = "WinnerByPoints" THEN a.color = b.color /\ F32Eq(a.points, b.points)
       ELSE a = b

\* #[derive(PartialEq)] for SgfToken.
TokenEq(a, b) ==
    /\ a.tag = b.tag
    /\ IF a.tag = "Komi" THEN F32Eq(a.f, b.f)
       ELSE IF a.tag = "Result" THEN OutcomeEq(a.outcome, b.outcome)
       ELSE a = b

-----------------------------------------------------------------------------
(* The inputs the codec is run on *)

\* The longest value built freely from ValueAlphabet.
MaxValLen == 3

\* a, A, 1, ':', '+', '.', and e-acute (two bytes in UTF-8).
ValueAlphabet == {97, 65, 49, 58, 43, 46, 233}

\* Values taken from the crate's tests and documentation, and the edges of the
\* number grammars.
SampleValues ==
    {Lit.Draw, Lit.D, Lit.Void, Lit.utf8, Lit.UTF8, Lit.Japanese,
     Str(<<"B", "+", "R">>), Str(<<"B", "+", "R", "e", "s", "i", "g", "n">>),
     Str(<<"W", "+", "T">>), Str(<<"W", "+", "T", "i", "m", "e">>),
     Str(<<"W", "+", "F">>), Str(<<"B", "+", "3", "5", ".", "0">>),
     Str(<<"W", "+", "5", "5", ".", "5">>), Str(<<"B", "+", "N", "a", "N">>),
     Str(<<"N", "a", "N">>), Str(<<"i", "n", "f">>), Str(<<"-", "0">>),
     Str(<<"1", "e", "2">>), Str(<<"6", ".", "5">>),
     Str(<<"I", "S", "O", "-", "8", "8", "5", "9", "-", "1">>),
     Str(<<"T", "E", "S", "T">>), Str(<<"k", "k", ":", "f", "o", "o">>),
     Str(<<"f", "o", "o", "b", "a", "r">>), Str(<<"1", "5", ":", "1", "7">>),
     Str(<<"1", "9", ":", "1", "9">>), Str(<<"1", "9">>), Str(<<"0">>),
     Str(<<"2">>), Str(<<"3">>), Str(<<"4">>), Str(<<"2", "5", "6">>),
     Str(<<"4", "2", "9", "4", "9", "6", "7", "2", "9", "6">>),
     Str(<<"C", "G", "o", "b", "a", "n", ":", "1", ".", "6", ".", "2">>),
     Str(<<"d", "c">>), Str(<<"2", "3">>), Str(<<"a", "a">>) \o <<233, 49>>,
     <<97, 233, 58, 97>>}

\* Two-letter coordinate codes around the letter i, at the end of the alphabet
\* and in uppercase: h, i, j, k, p, z, A, I, K.
CoordinateLetters == {104, 105, 106, 107, 112, 122, 65, 73, 75}
CoordinateSamples == {<<x, y>> : x, y \in CoordinateLetters}

\* Result values around the '+': a score with a signed exponent, a missing
\* side, a lowercase colour, the scores of the format's description, and "0".
ResultSamples ==
    {Str(<<"B", "+", "1", "e", "+", "2">>), Str(<<"B", "+">>), Str(<<"+", "R">>),
     Str(<<"b", "+", "R">>), Str(<<"B", "+", "0", ".", "5">>), Str(<<"W", "+", "6", "4">>),
     Str(<<"B", "+", "F", "o", "r", "f", "e", "i", "t">>), Str(<<"B", "+", "i", "n", "f">>),
     Str(<<"B", "+", "r">>)}

Values ==
    UNION {[1..k -> ValueAlphabet] : k \in 0..MaxValLen}
        \cup SampleValues \cup CoordinateSamples \cup ResultSamples

RecognizedIds == {Id[k] : k \in DOMAIN Id}

UnknownIds == {Str(<<"F", "O">>), Str(<<"F", "F">>), Str(<<"X">>)}

\* An identifier written with a lowercase filler character after its first letter.
WithFiller(id) == <<id[1], 108>> \o Tail(id)

Idents ==
    RecognizedIds \cup UnknownIds
        \cup {WithFiller(id) : id \in RecognizedIds \cup UnknownIds}
        \cup {Str(<<"C", "o", "p", "y", "R", "i", "g", "h", "t">>)}

\* The value of a variable the scenario has not set yet.
None == [tag |-> "None"]

\* No iterator was made and no query method was called.
NoIteration ==
    /\ iterator = None /\ yielded = None /\ last = None
    /\ chosen = None /\ picked = None /\ answer = None

-----------------------------------------------------------------------------
(* The codec scenario: decode a pair, encode the token, decode the text again *)

InitCodec ==
    /\ overflow_checks \in BOOLEAN
    /\ pc = "start"
    /\ ident \in Idents
    /\ value \in Values
    /\ token = None
    /\ text = None
    /\ token2 = None
    /\ node = None /\ node_text = None
    /\ tree = None /\ sgf = None /\ edited = FALSE /\ result = None /\ other = None
    /\ NoIteration

\* SgfToken::from_pair(ident, value).
Decode ==
    /\ pc = "start"
    /\ token' = from_pair(ident, value)
    /\ pc' = "decoded"
    /\ UNCHANGED <<overflow_checks, ident, value, text, token2, nodeVars, parseVars, iterVars>>

\* let text: String = (&token).into().
Encode ==
    /\ pc = "decoded"
    /\ token # Panicked
    /\ text' = token_into_string(token)
    /\ pc' = "encoded"
    /\ UNCHANGED <<overflow_checks, ident, value, token, token2, nodeVars, parseVars, iterVars>>

\* The identifier of an encoded property: the text before its first '['.
EncodedIdent(s) == Take(s, Find(s, 91) - 1)

\* The value of an encoded property: the text between its first '[' and its final ']'.
EncodedValue(s) == SubSeq(s, Find(s, 91) + 1, Len(s) - 1)

\* SgfToken::from_pair on the identifier and value of the encoded text.
Redecode ==
    /\ pc = "encoded"
    /\ text.st = "ok"
    /\ token2' = from_pair(EncodedIdent(text.s), EncodedValue(text.s))
    /\ pc' = "redecoded"
    /\ UNCHANGED <<overflow_checks, ident, value, token, text, nodeVars, parseVars, iterVars>>

NextCodec == Decode \/ Encode \/ Redecode

SpecCodec == InitCodec /\ [][NextCodec]_vars

-----------------------------------------------------------------------------
(* The node serializer (node.rs) *)

\* String ordering: lexicographic by bytes, which for UTF-8 is by code point.
StrLess(a, b) ==
    \E k \in 1..(Len(a) + 1) :
        /\ k <= Len(b)
        /\ \A j \in 1..(k - 1) : a[j] = b[j]
        /\ (k = Len(a) + 1 \/ a[k] < b[k])

\* token_strings.sort(): insertion of one string into a sorted list.
RECURSIVE InsertSorted(_, _)
InsertSorted(x, sorted) ==
    IF sorted = <<>> THEN <<x>>
    ELSE IF StrLess(x, Head(sorted)) THEN <<x>> \o sorted
    ELSE <<Head(sorted)>> \o InsertSorted(x, Tail(sorted))

RECURSIVE Sort(_)
Sort(strings) ==
    IF strings = <<>> THEN <<>> ELSE InsertSorted(Head(strings), Sort(Tail(strings)))

\* The guard of the first match arm with every token kept apart.
ContinuesRunNever(prev, tokstr) == FALSE

\* Some(ref prop) if token.starts_with(prop)
ContinuesRun(prev, tokstr) == prev # None /\ StartsWith(tokstr, prev.prop)

\* One step of the fold: acc is (prev, out), tokstr the next encoded token.
FoldStep(acc, tokstr) ==
    LET offset == IF Find(tokstr, 91) = 0 THEN Len(tokstr) ELSE Find(tokstr, 91) - 1
    IN IF ContinuesRun(acc.prev, tokstr)
       THEN [prev |-> acc.prev, out |-> Append(acc.out, Drop(tokstr, offset))]
       ELSE [prev |-> [prop |-> Take(tokstr, offset)], out |-> Append(acc.out, tokstr)]

RECURSIVE Fold(_, _)
Fold(acc, strings) ==
    IF strings = <<>> THEN acc ELSE Fold(FoldStep(acc, Head(strings)), Tail(strings))

\* impl Into<String> for &GameNode; a panic while encoding a token is a panic here.
node_into_string(n) ==
    WithValue([k \in 1..Len(n) |-> token_into_string(n[k])], LAMBDA encoded :
        IF \E k \in 1..Len(n) : encoded[k].st # "ok" THEN [st |-> "panic"]
        ELSE Ok(Concat(Fold([prev |-> None, out |-> <<Lit.semi>>],
                            Sort([k \in 1..Len(n) |-> encoded[k].s])).out)))

\* The most tokens a node of the scenario holds.
MaxTokens == 3

\* The properties the scenario's tokens are decoded from.
NodePairs == {
    <<Id.AB, Str(<<"a", "a">>)>>,
    <<Id.AB, Str(<<"b", "b">>)>>,
    <<Id.PW, Str(<<"w", "h", "i", "t", "e">>)>>,
    <<Id.B, Str(<<"a", "a">>)>>,
    <<Id.B, <<>>>>,
    <<Id.BL, Str(<<"1", "2">>)>>,
    <<Id.W, Str(<<"f", "o", "o", "b", "a", "r">>)>>,
    <<Str(<<"B", "a">>), Str(<<"x">>)>>,
    <<Str(<<"B", "b">>), Str(<<"c">>)>>,
    <<Str(<<"F", "O">>), Str(<<"a">>)>>,
    <<Str(<<"F", "O">>), Str(<<"b">>)>>,
    <<Str(<<"F", "l", "O">>), Str(<<"a">>)>>,
    <<Id.KM, Str(<<"6", ".", "5">>)>> }

NodeTokens == {from_pair(p[1], p[2]) : p \in NodePairs}

Nodes == UNION {[1..n -> NodeTokens] : n \in 0..MaxTokens}

InitNode ==
    /\ overflow_checks \in BOOLEAN
    /\ pc = "built"
    /\ node \in Nodes
    /\ node_text = None
    /\ ident = None /\ value = None /\ token = None /\ text = None /\ token2 = None
    /\ tree = None /\ sgf = None /\ edited = FALSE /\ result = None /\ other = None
    /\ NoIteration

\* let text: String = (&node).into().
RenderNode ==
    /\ pc = "built"
    /\ node_text' = node_into_string(node)
    /\ pc' = "rendered"
    /\ UNCHANGED <<overflow_checks, codecVars, node, parseVars, iterVars>>

NextNode == RenderNode

SpecNode == InitNode /\ [][NextNode]_vars

-----------------------------------------------------------------------------
(* The structural parser (parser.rs), written with nom combinators over a    *)
(* complete input: a combinator returns the remaining input and a value, or  *)
(* an error; a panic inside a parser unwinds through every caller.           *)

Failed == [st |-> "err"]

Done(rest, v) == [st |-> "ok", rest |-> rest, v |-> v]

\* tag!(t)
Tag(input, t) == IF StartsWith(input, t) THEN Done(Drop(input, Len(t)), t) ELSE Failed

\* convert_u8_to_coordinate of parser.rs: n = c - 96, one less from 9 upwards.
parser_convert_u8_to_coordinate(c) ==
    LET n == SubU8(c, 96)
    IN IF n.st = "ok" /\ n.v >= 9 THEN [st |-> "ok", v |-> n.v - 1] ELSE n

\* str_to_coordinates of parser.rs: (5, 5) for every input that is not two bytes
\* long.
parser_str_to_coordinates(input) ==
    IF ByteLen(input) # 2 THEN [st |-> "ok", c |-> <<5, 5>>]
    ELSE LET bytes == Bytes(ToLower(input))
             x == parser_convert_u8_to_coordinate(bytes[1])
             y == parser_convert_u8_to_coordinate(bytes[2])
         IN IF x.st = "panic" \/ y.st = "panic" THEN [st |-> "panic"]
            ELSE [st |-> "ok", c |-> <<x.v, y.v>>]

\* parse_string_value: "[" then take_until_and_consume!("]").
parse_string_value(input) ==
    IF input = <<>> \/ Head(input) # 91 \/ Find(Tail(input), 93) = 0 THEN Failed
    ELSE Done(Drop(Tail(input), Find(Tail(input), 93)),
              Take(Tail(input), Find(Tail(input), 93) - 1))

\* The length of the digits, optional fraction, or fraction alone that body
\* starts with, given the number ip of its leading digits; 0 for none.
FloatBodyLen(body, ip) ==
    IF Len(body) > ip /\ body[ip + 1] = 46
    THEN IF ip + CountDigits(Drop(body, ip + 1)) = 0 THEN 0
         ELSE ip + 1 + CountDigits(Drop(body, ip + 1))
    ELSE ip

\* The length of the exponent tail starts with: e or E, an optional sign, and
\* digits; 0 when it is not complete.
FloatExponentLen(tail, esign) ==
    IF tail # <<>> /\ (Head(tail) = 101 \/ Head(tail) = 69)
          /\ CountDigits(Drop(tail, 1 + esign)) > 0
    THEN 1 + esign + CountDigits(Drop(tail, 1 + esign))
    ELSE 0

\* The length of an optional sign at the given position of s.
SignLen(s, at) == IF Len(s) >= at /\ (s[at] = 43 \/ s[at] = 45) THEN 1 ELSE 0

\* The float literal of the given body length after the sign, with its exponent.
FloatLen(unsigned, number) ==
    IF number = 0 THEN 0
    ELSE number + FloatExponentLen(Drop(unsigned, number), SignLen(unsigned, number + 2))

\* nom::recognize_float: the length of the float literal input starts with, 0 for
\* none: a sign, digits with an optional fraction or a fraction alone, and an
\* exponent when it is complete.
recognize_float(input) ==
    WithValue(FloatLen(Drop(input, SignLen(input, 1)),
                       FloatBodyLen(Drop(input, SignLen(input, 1)),
                                    CountDigits(Drop(input, SignLen(input, 1))))),
              LAMBDA n : IF n = 0 THEN 0 ELSE SignLen(input, 1) + n)

\* The value between "[" and "]" when the literal of length n is followed by "]".
Bracketed(input, n, number) ==
    IF n = 0 \/ ~number.ok \/ Len(input) < n + 2 \/ input[n + 2] # 93 THEN Failed
    ELSE Done(Drop(input, n + 2), number.v)

\* parse_u32_value: "[", one or more digits read by u32::from_str, "]".
parse_u32_value(input) ==
    IF input = <<>> \/ Head(input) # 91 THEN Failed
    ELSE WithValue(CountDigits(Tail(input)), LAMBDA n :
            Bracketed(input, n, ParseU32(SubSeq(input, 2, 1 + n))))

\* parse_f32_value: "[", nom::float, "]".
parse_f32_value(input) ==
    IF input = <<>> \/ Head(input) # 91 THEN Failed
    ELSE WithValue(recognize_float(Tail(input)), LAMBDA n :
            Bracketed(input, n, ParseF32(SubSeq(input, 2, 1 + n))))

\* The parsers parse_token tries, in the order of its alt!: the tag, the kind of
\* value, the token, and the stone of a token that has one.
TokenParsers ==
    << [tag |-> Str(<<"G", "N">>), kind |-> "string", token |-> "GameName"],
       [tag |-> Str(<<"C", "P">>), kind |-> "string", token |-> "Copyright"],
       [tag |-> Str(<<"E", "V">>), kind |-> "string", token |-> "Event"],
       [tag |-> Str(<<"D", "T">>), kind |-> "string", token |-> "Date"],
       [tag |-> Str(<<"P", "C">>), kind |-> "string", token |-> "Place"],
       [tag |-> Str(<<"C">>), kind |-> "string", token |-> "Comment"],
       [tag |-> Str(<<"S", "i", "z", "e">>), kind |-> "u32", token |-> "Size"],
       [tag |-> Str(<<"T", "M">>), kind |-> "u32", token |-> "TimeLimit"],
       [tag |-> Str(<<"B">>), kind |-> "string", token |-> "Move", stone |-> "Black"],
       [tag |-> Str(<<"B", "L">>), kind |-> "u32", token |-> "Time", stone |-> "Black"],
       [tag |-> Str(<<"P", "B">>), kind |-> "string", token |-> "PlayerName", stone |-> "Black"],
       [tag |-> Str(<<"B", "R">>), kind |-> "string", token |-> "PlayerRank", stone |-> "Black"],
       [tag |-> Str(<<"W">>), kind |-> "string", token |-> "Move", stone |-> "White"],
       [tag |-> Str(<<"W", "L">>), kind |-> "u32", token |-> "Time", stone |-> "White"],
       [tag |-> Str(<<"P", "W">>), kind |-> "string", token |-> "PlayerName", stone |-> "White"],
       [tag |-> Str(<<"W", "R">>), kind |-> "string", token |-> "PlayerRank", stone |-> "White"],
       [tag |-> Str(<<"K", "M">>), kind |-> "f32", token |-> "Komi"] >>

\* The value parser of a token parser: parse_string_value, parse_u32_value or
\* parse_f32_value.
ValueOf(input, kind) ==
    IF kind = "string" THEN parse_string_value(input)
    ELSE IF kind = "u32" THEN parse_u32_value(input)
    ELSE parse_f32_value(input)

\* The token a parser builds from the value v it read.
MakeToken(parser, v) ==
    IF parser.token = "Move"
    THEN WithValue(parser_str_to_coordinates(v), LAMBDA coordinate :
            IF coordinate.st = "panic" THEN Panicked
            ELSE [tag |-> "Move", stone |-> parser.stone, coordinate |-> coordinate.c])
    ELSE IF "stone" \in DOMAIN parser
         THEN [tag |-> parser.token, stone |-> parser.stone, value |-> v]
         ELSE [tag |-> parser.token, value |-> v]

\* One parser of parse_token: do_parse!(tag!(..) >> value >> (token)).
TokenParser(input, parser) ==
    IF Tag(input, parser.tag).st # "ok" THEN Failed
    ELSE WithValue(ValueOf(Drop(input, Len(parser.tag)), parser.kind), LAMBDA value_read :
            IF value_read.st # "ok" THEN Failed
            ELSE WithValue(MakeToken(parser, value_read.v), LAMBDA made :
                    IF made = Panicked THEN [st |-> "panic"]
                    ELSE Done(value_read.rest, made)))

\* The alternatives of parse_token applied to input, in order.
TokenAlternatives(input) ==
    [k \in 1..Len(TokenParsers) |-> TokenParser(input, TokenParsers[k])]

\* parse_token: alt! returns what the first alternative that does not fail returns.
parse_token(input) ==
    WithValue(TokenAlternatives(input), LAMBDA alternatives :
        LET tried == {k \in 1..Len(alternatives) : alternatives[k].st # "err"}
        IN IF tried = {} THEN Failed
           ELSE alternatives[CHOOSE k \in tried : \A j \in tried : k <= j])

\* The loop of many1!(parse_token): tokens are collected until the parser fails.
RECURSIVE MoreTokens(_)
MoreTokens(input) ==
    WithValue(parse_token(input), LAMBDA r :
        IF r.st = "err" THEN Done(input, <<>>)
        ELSE IF r.st = "panic" THEN r
        ELSE WithValue(MoreTokens(r.rest), LAMBDA more :
                IF more.st = "panic" THEN more
                ELSE Done(more.rest, <<r.v>> \o more.v)))

\* many1!(parse_token): the first token must parse.
Many1Tokens(input) ==
    WithValue(MoreTokens(input), LAMBDA r :
        IF r.st = "ok" /\ r.v = <<>> THEN Failed ELSE r)

\* parse_node: ";", then one or more tokens.
parse_node(input) ==
    IF Tag(input, Lit.semi).st # "ok" THEN Failed
    ELSE WithValue(Many1Tokens(Tail(input)), LAMBDA tokens :
            IF tokens.st # "ok" THEN tokens
            ELSE Done(tokens.rest, [tokens |-> tokens.v, children |-> <<>>]))

RECURSIVE parse_sgf_nodes(_)
RECURSIVE parse_game_tree(_)
RECURSIVE parse_game_trees(_)

\* parse_sgf_nodes: a node, then the rest of the sequence as its first child,
\* then the roots of the game trees that follow as further children.
parse_sgf_nodes(input) ==
    WithValue(parse_node(input), LAMBDA first :
        IF first.st # "ok" THEN first
        ELSE WithValue(parse_sgf_nodes(first.rest), LAMBDA next :
            IF next.st = "panic" THEN next
            ELSE LET node1 == IF next.st = "ok"
                              THEN [first.v EXCEPT !.children = Append(@, next.v)]
                              ELSE first.v
                     remainder == IF next.st = "ok" THEN next.rest ELSE first.rest
                 IN WithValue(parse_game_trees(remainder), LAMBDA trees :
                        IF trees.st = "panic" THEN trees
                        ELSE IF trees.st = "ok"
                             THEN Done(trees.rest,
                                       [node1 EXCEPT !.children =
                                           @ \o [k \in 1..Len(trees.v) |-> trees.v[k].root]])
                             ELSE Done(remainder, node1))))

\* parse_game_tree: delimited!(tag!("("), parse_sgf_nodes, tag!(")")).
parse_game_tree(input) ==
    IF Tag(input, Str(<<"(">>)).st # "ok" THEN Failed
    ELSE WithValue(parse_sgf_nodes(Tail(input)), LAMBDA root :
            IF root.st # "ok" THEN root
            ELSE IF Tag(root.rest, Str(<<")">>)).st # "ok" THEN Failed
            ELSE Done(Tail(root.rest), [root |-> root.v]))

\* parse_game_trees: many1!(parse_game_tree).
parse_game_trees(input) ==
    WithValue(parse_game_tree(input), LAMBDA first :
        IF first.st # "ok" THEN first
        ELSE WithValue(parse_game_trees(first.rest), LAMBDA more :
                IF more.st = "panic" THEN more
                ELSE IF more.st = "ok" THEN Done(more.rest, <<first.v>> \o more.v)
                ELSE Done(first.rest, <<first.v>>)))

\* parse: Ok(tree) when parse_game_tree succeeds, whatever input remains, and
\* Err(()) otherwise.
parse(input) ==
    WithValue(parse_game_tree(input), LAMBDA r :
        IF r.st = "panic" THEN [st |-> "panic"]
        ELSE IF r.st = "ok" THEN [st |-> "ok", tree |-> r.v]
        ELSE [st |-> "err"])

-----------------------------------------------------------------------------
(* The parse scenario: a GameTree is rendered to text, the text is possibly  *)
(* changed in one place, and the text is parsed.                             *)

\* The texts joined when every one of them was rendered, a panic otherwise.
Joined(rendered) ==
    IF \E k \in 1..Len(rendered) : rendered[k].st # "ok" THEN [st |-> "panic"]
    ELSE Ok(Concat([k \in 1..Len(rendered) |-> rendered[k].s]))

RECURSIVE tree_into_string(_)
\* A rendering that writes the nodes and the variations without the enclosing
\* parentheses.
tree_into_string_bare(t) ==
    Joined([k \in 1..(Len(t.nodes) + Len(t.variations)) |->
                IF k <= Len(t.nodes) THEN node_into_string(t.nodes[k])
                ELSE tree_into_string(t.variations[k - Len(t.nodes)])])

\* Into<String> for &GameTree: "(" followed by each node of the tree in order,
\* each variation in order, and ")".
tree_into_string(t) ==
    WithValue(Joined([k \in 1..(Len(t.nodes) + Len(t.variations)) |->
                        IF k <= Len(t.nodes) THEN node_into_string(t.nodes[k])
                        ELSE tree_into_string(t.variations[k - Len(t.nodes)])]),
              LAMBDA inner :
                IF inner.st # "ok" THEN inner
                ELSE Ok(Str(<<"(">>) \o inner.s \o Str(<<")">>)))

\* The properties the tokens of the scenario's trees are decoded from.
TreePairs == {
    <<Id.B, Str(<<"a", "a">>)>>,
    <<Id.B, Str(<<"h", "h">>)>>,
    <<Id.B, Str(<<"i", "i">>)>>,
    <<Id.B, <<>>>>,
    <<Id.B, Str(<<"a">>)>>,
    <<Id.W, Str(<<"b", "b">>)>>,
    <<Id.W, Str(<<"f", "o", "o", "b", "a", "r">>)>>,
    <<Str(<<"F", "O">>), Str(<<"a", "s", "d", "f">>)>>,
    <<Id.AB, Str(<<"a", "a">>)>>,
    <<Id.C, Str(<<"x">>)>>,
    <<Id.KM, Str(<<"6", ".", "5">>)>>,
    <<Id.SZ, Str(<<"1", "9">>)>>,
    <<Id.CR, Str(<<"x">>)>>,
    <<Id.PB, Str(<<"b">>)>> }

\* The properties of the nodes that follow the first node of a tree.
FollowingPairs == {
    <<Id.B, Str(<<"a", "a">>)>>,
    <<Id.W, Str(<<"b", "b">>)>>,
    <<Str(<<"F", "O">>), Str(<<"a", "s", "d", "f">>)>> }

\* The tokens properties decode to.
Decoded(pairs) == [k \in 1..Len(pairs) |-> from_pair(pairs[k][1], pairs[k][2])]

\* The nodes of the scenario's trees: one token each, or a move with its clock.
TreeNodes ==
    {Decoded(ps) : ps \in {<<p>> : p \in TreePairs \cup FollowingPairs}
                        \cup {<< <<Id.B, Str(<<"d", "c">>)>>, <<Id.BL, Str(<<"1", "2">>)>> >>}}

\* The nodes that follow the first node of a tree.
FollowingNodes(first_nodes) ==
    {n \in first_nodes : \E p \in FollowingPairs :
        Len(n) = 1 /\ n[1] = from_pair(p[1], p[2])}

Leaf(nodes) == [nodes |-> nodes, variations |-> <<>>]

\* A single node, two nodes in sequence, a node with one variation, and a node
\* with two variations, over the nodes given.
TreesOver(first_nodes, following) ==
    {Leaf(<<n>>) : n \in first_nodes}
        \cup {Leaf(<<n, m>>) : n \in first_nodes, m \in following}
        \cup {[nodes |-> <<n>>, variations |-> <<Leaf(<<m>>)>>] :
                n \in following, m \in following}
        \cup {[nodes |-> <<n>>, variations |-> <<Leaf(<<m>>), Leaf(<<k>>)>>] :
                n \in following, m \in following, k \in following}

\* The trees of tests/tree.rs: three nodes in sequence, without variations and
\* with two single-node variations.
TestMove(color, x, y) ==
    [tag |-> "Move", color |-> color, action |-> [kind |-> "Move", x |-> x, y |-> y]]

TestNodes ==
    << <<[tag |-> "PlayerName", color |-> "Black", s |-> Str(<<"b", "l", "a", "c", "k">>)],
         [tag |-> "PlayerName", color |-> "White", s |-> Str(<<"w", "h", "i", "t", "e">>)]>>,
       <<TestMove("Black", 3, 3)>>,
       <<TestMove("White", 16, 16)>> >>

TestTrees ==
    {Leaf(TestNodes),
     [nodes |-> TestNodes,
      variations |-> <<Leaf(<< <<TestMove("Black", 4, 16)>> >>),
                       Leaf(<< <<TestMove("Black", 16, 4)>> >>)>>]}

Trees == UNION {TreesOver(N, FollowingNodes(N)) : N \in {TreeNodes}} \cup TestTrees

\* The characters an edit inserts: ( ) ; [ ] and a lowercase letter.
EditChars == {40, 41, 59, 91, 93, 120}

InitParse ==
    /\ overflow_checks \in BOOLEAN
    /\ pc = "tree"
    /\ tree \in Trees
    /\ sgf = None /\ edited = FALSE /\ result = None /\ other = None
    /\ ident = None /\ value = None /\ token = None /\ text = None /\ token2 = None
    /\ node = None /\ node_text = None
    /\ NoIteration

\* let input: String = (&tree).into().
Serialize ==
    /\ pc = "tree"
    /\ \E rendered \in {tree_into_string(tree)} :
        /\ rendered.st = "ok"
        /\ sgf' = rendered.s
    /\ pc' = "text"
    /\ UNCHANGED <<overflow_checks, codecVars, nodeVars, tree, edited, result, other, iterVars>>

\* The caller's text differs from the rendering by one deleted character.
DeleteChar ==
    /\ pc = "text" /\ ~edited
    /\ \E i \in 1..Len(sgf) : sgf' = Take(sgf, i - 1) \o Drop(sgf, i)
    /\ edited' = TRUE
    /\ UNCHANGED <<overflow_checks, pc, codecVars, nodeVars, tree, result, other, iterVars>>

\* The caller's text differs from the rendering by one inserted character.
InsertChar ==
    /\ pc = "text" /\ ~edited
    /\ \E i \in 0..Len(sgf) : \E c \in EditChars :
            sgf' = Take(sgf, i) \o <<c>> \o Drop(sgf, i)
    /\ edited' = TRUE
    /\ UNCHANGED <<overflow_checks, pc, codecVars, nodeVars, tree, result, other, iterVars>>

\* The caller's text holds no game tree at all: it is the empty text.
EmptyText ==
    /\ pc = "tree"
    /\ sgf' = <<>>
    /\ edited' = TRUE
    /\ pc' = "text"
    /\ UNCHANGED <<overflow_checks, codecVars, nodeVars, tree, result, other, iterVars>>

\* let result = parse(&input).
Parse ==
    /\ pc = "text"
    /\ result' = parse(sgf)
    /\ pc' = "parsed"
    /\ UNCHANGED <<overflow_checks, codecVars, nodeVars, tree, sgf, edited, other, iterVars>>

\* A second tree is rendered and its rendering parsed, to be compared with the
\* first.
ParseOther ==
    /\ pc = "parsed" /\ ~edited
    /\ \E t \in Trees : \E rendered \in {tree_into_string(t)} :
        /\ rendered.st = "ok"
        /\ other' = [tree |-> t, input |-> rendered.s, result |-> parse(rendered.s)]
    /\ pc' = "compared"
    /\ UNCHANGED <<overflow_checks, codecVars, nodeVars, tree, sgf, edited, result, iterVars>>

NextParse == Serialize \/ DeleteChar \/ InsertChar \/ EmptyText \/ Parse \/ ParseOther

SpecParse == InitParse /\ [][NextParse]_vars

-----------------------------------------------------------------------------
(* Claims about the codec, checked under SpecCodec *)

IsAsciiUpper(c) == c >= 65 /\ c <= 90

IsAsciiLower(c) == c >= 97 /\ c <= 122

IsNotAsciiLower(c) == ~IsAsciiLower(c)

\* The uppercase letters an identifier spells.
UpperLetters(s) == SelectSeq(s, IsAsciiUpper)

\* An identifier with its lowercase filler characters removed.
RemoveLowercase(s) == SelectSeq(s, IsNotAsciiLower)

IsLetter(c) == IsAsciiUpper(c) \/ IsAsciiLower(c)

\* The identifiers whose value is a coordinate, and the two move identifiers.
CoordinateIds == {Id.SQ, Id.TR, Id.AB, Id.AW, Id.B, Id.W}
MoveIds == {Id.B, Id.W}

\* A valid two-letter coordinate code.
TwoLetterCode(v) == Len(v) = 2 /\ IsLetter(v[1]) /\ IsLetter(v[2])

C4_MalformedIsInvalid ==
    (pc # "start" /\ UpperLetters(ident) \in RecognizedIds)
        => /\ token # Panicked
           /\ (/\ UpperLetters(ident) \in CoordinateIds
               /\ ~TwoLetterCode(value)
               /\ ~(UpperLetters(ident) \in MoveIds /\ value = <<>>))
              => token = [tag |-> "Invalid", ident |-> ident, value |-> value]

\* C5 as claimed: an identifier with lowercase filler characters decodes every
\* value to the same token as the identifier with those characters removed.
C5_SameAsWithoutFiller ==
    pc # "start" => token = from_pair(RemoveLowercase(ident), value)

\* C5 as amended: with the filler removed from_pair yields the same variant with
\* the same payload (or panics alike), except that an Unknown or Invalid token
\* carries the identifier as it was written.
C5_SameUpToStoredIdentifier ==
    pc # "start" =>
        LET bare == from_pair(RemoveLowercase(ident), value)
        IN IF token.tag \in {"Unknown", "Invalid"}
           THEN bare = [token EXCEPT !.ident = RemoveLowercase(ident)]
           ELSE bare = token

\* "CopyRight" has been decoded like "CR", and an invalid value under an
\* identifier with a filler keeps the filler.
C5_Witness ==
    /\ pc = "decoded"
    /\ \/ ident = Str(<<"C", "o", "p", "y", "R", "i", "g", "h", "t">>) /\ token.tag = "Copyright"
       \/ ident = WithFiller(Id.W) /\ token.tag = "Invalid"

\* C6: a token that is neither Unknown nor Invalid encodes to IDENT[value'] with
\* the canonical uppercase identifier, and from_pair(IDENT, value') is equal to it.
C6_TokenRoundTrip ==
    /\ (pc = "encoded" /\ token.tag \notin {"Unknown", "Invalid"}) => text.st = "ok"
    /\ (pc = "redecoded" /\ token.tag \notin {"Unknown", "Invalid"})
        => /\ EncodedIdent(text.s) \in RecognizedIds
           /\ text.s = Prop(EncodedIdent(text.s), EncodedValue(text.s))
           /\ token2 # Panicked
           /\ TokenEq(token2, token)

-----------------------------------------------------------------------------
(* Claims about a rendered node, checked under SpecNode *)

\* The bracketed values at the front of s, as the sequence of their texts.
RECURSIVE LeadingValues(_)
LeadingValues(s) ==
    IF s = <<>> \/ Head(s) # 91 \/ Find(s, 93) = 0 THEN <<>>
    ELSE <<SubSeq(s, 2, Find(s, 93) - 1)>> \o LeadingValues(Drop(s, Find(s, 93)))

\* What is left of s after its leading bracketed values.
RECURSIVE AfterValues(_)
AfterValues(s) ==
    IF s = <<>> \/ Head(s) # 91 \/ Find(s, 93) = 0 THEN s
    ELSE AfterValues(Drop(s, Find(s, 93)))

\* The runs IDENT[v1][v2].. that a text of properties consists of, in order.
RECURSIVE Runs(_)
Runs(s) ==
    IF s = <<>> \/ Find(s, 91) = 0 THEN <<>>
    ELSE LET rest == Drop(s, Find(s, 91) - 1)
         IN <<[ident |-> Take(s, Find(s, 91) - 1), values |-> LeadingValues(rest)]>>
            \o Runs(AfterValues(rest))

\* The runs of a rendered node: those of its text after the leading ';'.
NodeRuns == Runs(Tail(node_text.s))

\* C7: an Unknown((i, v)) or Invalid((i, v)) token encodes to exactly i[v], and a
\* rendered node that holds it shows the property: identifier i heads a run of
\* the rendering and [v] is one of the values of that run.
C7_VerbatimInNode ==
    pc = "rendered" =>
        \A k \in 1..Len(node) :
            node[k].tag \in {"Unknown", "Invalid"} =>
                /\ token_into_string(node[k]) = Ok(Prop(node[k].ident, node[k].value))
                /\ node_text.st = "ok"
                /\ \E r \in 1..Len(NodeRuns) :
                    /\ NodeRuns[r].ident = node[k].ident
                    /\ \E j \in 1..Len(NodeRuns[r].values) :
                        NodeRuns[r].values[j] = node[k].value

\* C10: a node renders as ';' followed by runs IDENT[v1][v2]..: each identifier
\* heads at most one run, and every token's bracketed value occurs in a run,
\* one value per token.
C10_OneRunPerIdentifier ==
    pc = "rendered" =>
        /\ node_text.st = "ok"
        /\ Head(node_text.s) = 59
        /\ LET runs == NodeRuns
           IN /\ \A r1, r2 \in 1..Len(runs) : runs[r1].ident = runs[r2].ident => r1 = r2
              /\ \A k \in 1..Len(node) :
                    \E r \in 1..Len(runs) : \E j \in 1..Len(runs[r].values) :
                        runs[r].values[j] = EncodedValue(token_into_string(node[k]).s)
              /\ Len(Concat([r \in 1..Len(runs) |-> runs[r].values])) = Len(node)
              /\ Concat([r \in 1..Len(runs) |->
                    Concat(<<runs[r].ident>> \o
                           [j \in 1..Len(runs[r].values) |->
                                Lit.lbr \o runs[r].values[j] \o Lit.rbr])])
                   = Tail(node_text.s)

\* Two stones added to the same colour around a player name have been rendered
\* as ";AB[aa][bb]PW[white]".
C10_Witness ==
    /\ pc = "rendered"
    /\ Len(node) = 3
    /\ node[1].tag = "Add" /\ node[2].tag = "PlayerName" /\ node[3].tag = "Add"
    /\ node[1] # node[3]
    /\ node_text = Ok(Str(<<";", "A", "B", "[", "a", "a", "]", "[", "b", "b", "]",
                            "P", "W", "[", "w", "h", "i", "t", "e", "]">>))

-----------------------------------------------------------------------------
(* Claims about parse, checked under SpecParse *)

NoMatch == [ok |-> FALSE]

Matched(rest) == [ok |-> TRUE, rest |-> rest]

\* The number of letters s starts with.
RECURSIVE CountLetters(_)
CountLetters(s) == IF s # <<>> /\ IsLetter(Head(s)) THEN 1 + CountLetters(Tail(s)) ELSE 0

\* Property = Identifier Value { Value }, zero or more times: the identifier is a
\* run of letters with an uppercase letter in it, a value is "[" CharData "]".
RECURSIVE MatchProperties(_)
MatchProperties(s) ==
    WithValue(CountLetters(s), LAMBDA n :
        IF n = 0 THEN Matched(s)
        ELSE IF UpperLetters(Take(s, n)) = <<>> \/ LeadingValues(Drop(s, n)) = <<>>
             THEN NoMatch
             ELSE MatchProperties(AfterValues(Drop(s, n))))

\* Sequence = Node { Node }, Node = ";" { Property }; first is whether a node is
\* still required.
RECURSIVE MatchSequence(_, _)
MatchSequence(s, first) ==
    IF s = <<>> \/ Head(s) # 59 THEN (IF first THEN NoMatch ELSE Matched(s))
    ELSE WithValue(MatchProperties(Tail(s)), LAMBDA r :
            IF r.ok THEN MatchSequence(r.rest, FALSE) ELSE NoMatch)

RECURSIVE MatchGameTree(_)
RECURSIVE MatchGameTrees(_)

\* GameTree = "(" Sequence { GameTree } ")".
MatchGameTree(s) ==
    IF s = <<>> \/ Head(s) # 40 THEN NoMatch
    ELSE WithValue(MatchSequence(Tail(s), TRUE), LAMBDA seq :
            IF ~seq.ok THEN NoMatch
            ELSE WithValue(MatchGameTrees(seq.rest), LAMBDA r :
                    IF ~r.ok \/ r.rest = <<>> \/ Head(r.rest) # 41 THEN NoMatch
                    ELSE Matched(Tail(r.rest))))

\* { GameTree }
MatchGameTrees(s) ==
    IF s = <<>> \/ Head(s) # 40 THEN Matched(s)
    ELSE WithValue(MatchGameTree(s), LAMBDA r :
            IF r.ok THEN MatchGameTrees(r.rest) ELSE NoMatch)

\* The input conforms to the grammar: it is one GameTree.
Conforms(s) == MatchGameTree(s) = Matched(<<>>)

\* The properties of a conforming text in text order, one (identifier, value)
\* pair for each value.
RECURSIVE TextProperties(_)
TextProperties(s) ==
    IF s = <<>> THEN <<>>
    ELSE IF ~IsLetter(Head(s)) THEN TextProperties(Tail(s))
    ELSE WithValue(CountLetters(s), LAMBDA n :
            [k \in 1..Len(LeadingValues(Drop(s, n))) |->
                <<Take(s, n), LeadingValues(Drop(s, n))[k]>>]
            \o TextProperties(AfterValues(Drop(s, n))))

\* The tokens of a parsed node and of the nodes below it, in text order.
RECURSIVE ParsedTokens(_)
ParsedTokens(n) ==
    n.tokens \o Concat([k \in 1..Len(n.children) |-> ParsedTokens(n.children[k])])

\* C1: parse returns Ok for every input that conforms to the grammar, and a
\* property whose identifier is unrecognized or whose value fails its grammar is
\* in the result, at its position, as the Unknown or Invalid token from_pair
\* gives for it.
C1_MeaningNeverFails ==
    (pc \in {"parsed", "compared"} /\ Conforms(sgf)) =>
        /\ result.st = "ok"
        /\ LET properties == TextProperties(sgf)
               tokens == ParsedTokens(result.tree.root)
           IN /\ Len(tokens) = Len(properties)
              /\ \A k \in 1..Len(properties) :
                    LET decoded == from_pair(properties[k][1], properties[k][2])
                    IN decoded.tag \in {"Unknown", "Invalid"} => tokens[k] = decoded

\* C2: parse returns an error, and no tree, for every input that does not
\* conform to the grammar.
C2_GrammarErrorsFail ==
    (pc \in {"parsed", "compared"} /\ ~Conforms(sgf)) => result.st = "err"

\* Whether a token of the parser and a token of the tree are the same token.
SameToken(p, t) ==
    /\ p.tag = t.tag
    /\ CASE p.tag \in {"GameName", "Copyright", "Event", "Date", "Place", "Comment"} ->
                p.value = t.s
         [] p.tag \in {"PlayerName", "PlayerRank"} -> p.stone = t.color /\ p.value = t.s
         [] p.tag = "Time" -> p.stone = t.color /\ p.value = t.n
         [] p.tag = "TimeLimit" -> p.value = t.n
         [] p.tag = "Size" -> t.w = t.h /\ p.value = t.w
         [] p.tag = "Komi" -> F32Eq(p.value, t.f)
         [] p.tag = "Move" -> /\ t.action.kind = "Move"
                              /\ p.stone = t.color
                              /\ p.coordinate = <<t.action.x, t.action.y>>
         [] OTHER -> FALSE

\* The same multiset of tokens.
SameTokens(ps, ts) ==
    /\ Len(ps) = Len(ts)
    /\ \E f \in [1..Len(ps) -> 1..Len(ts)] :
        /\ \A j, k \in 1..Len(ps) : f[j] = f[k] => j = k
        /\ \A k \in 1..Len(ps) : SameToken(ps[k], ts[f[k]])

\* The parsed node n and what follows it are the nodes of tree t from the k-th
\* on, followed by the variations of t in order.
RECURSIVE SameFrom(_, _, _)
SameFrom(n, t, k) ==
    /\ SameTokens(n.tokens, t.nodes[k])
    /\ IF k < Len(t.nodes)
       THEN Len(n.children) = 1 /\ SameFrom(n.children[1], t, k + 1)
       ELSE /\ Len(n.children) = Len(t.variations)
            /\ \A j \in 1..Len(t.variations) : SameFrom(n.children[j], t.variations[j], 1)

\* Whether no token of the tree is Unknown or Invalid.
RECURSIVE AllDecoded(_)
AllDecoded(t) ==
    /\ \A k \in 1..Len(t.nodes) : \A j \in 1..Len(t.nodes[k]) :
            t.nodes[k][j].tag \notin {"Unknown", "Invalid"}
    /\ \A k \in 1..Len(t.variations) : AllDecoded(t.variations[k])

\* C8: for a tree built entirely from tokens that are not Unknown or Invalid,
\* parse of its text succeeds and gives the same node chain and variations,
\* with the same multiset of tokens in each node.
C8_TreeRoundTrip ==
    (pc \in {"parsed", "compared"} /\ ~edited /\ AllDecoded(tree)) =>
        /\ result.st = "ok"
        /\ SameFrom(result.tree.root, tree, 1)

\* Whether two nodes that parse returned are equal: the same tokens in the same
\* order, and equal children in the same order.
RECURSIVE SameParsed(_, _)
SameParsed(n, m) ==
    /\ Len(n.tokens) = Len(m.tokens)
    /\ \A k \in 1..Len(n.tokens) :
            n.tokens[k].tag = m.tokens[k].tag /\ n.tokens[k] = m.tokens[k]
    /\ Len(n.children) = Len(m.children)
    /\ \A j \in 1..Len(n.children) : SameParsed(n.children[j], m.children[j])

\* C9: the text of a tree that parses is the text of what parse returned for it;
\* the text is then a function of the parse result, so two trees whose texts
\* parse to the same result have the same text.
C9_TextFixedPoint ==
    (pc = "compared" /\ result.st = "ok" /\ other.result.st = "ok"
            /\ SameParsed(result.tree.root, other.result.tree.root))
        => sgf = other.input

-----------------------------------------------------------------------------
(* Claims about the rendering of a tree, checked under SpecParse *)

\* The number of occurrences of the character c in s.
CountChar(s, c) == Cardinality({i \in 1..Len(s) : s[i] = c})

\* The renderings of the nodes of a chain, one after the other.
NodeTexts(nodes) == Concat([k \in 1..Len(nodes) |-> node_into_string(nodes[k]).s])

\* The text of a tree without variations: its chain between one pair of
\* parentheses.
LeafText(t) == Str(<<"(">>) \o NodeTexts(t.nodes) \o Str(<<")">>)

\* The state holds the rendering of the tree, and every variation of the tree
\* is a tree without variations.
RenderedTree ==
    /\ pc = "text" /\ ~edited
    /\ \A k \in 1..Len(tree.variations) : tree.variations[k].variations = <<>>

\* C11: a tree renders as "(", the rendering of each node of its chain in
\* chain order, the complete rendering of each variation in variation order,
\* and ")"; a tree without variations has exactly one pair of parentheses. The
\* two trees of tests/tree.rs render as the tests expect.
C11_TreeRendering ==
    RenderedTree =>
        /\ sgf = Str(<<"(">>) \o NodeTexts(tree.nodes)
                    \o Concat([k \in 1..Len(tree.variations) |->
                                    LeafText(tree.variations[k])])
                    \o Str(<<")">>)
        /\ tree.variations = <<>> => CountChar(sgf, 40) = 1 /\ CountChar(sgf, 41) = 1
        /\ (tree.nodes = TestNodes /\ tree.variations = <<>>)
                => sgf = Str(<<"(", ";", "P", "B", "[", "b", "l", "a", "c", "k", "]", "P", "W", "[", "w", "h", "i", "t", "e", "]", ";", "B", "[", "c", "c", "]", ";", "W", "[", "p", "p", "]", ")">>)
        /\ (tree.nodes = TestNodes /\ tree.variations # <<>>)
                => sgf = Str(<<"(", ";", "P", "B", "[", "b", "l", "a", "c", "k", "]", "P", "W", "[", "w", "h", "i", "t", "e", "]", ";", "B", "[", "c", "c", "]", ";", "W", "[", "p", "p", "]", "(", ";", "B", "[", "d", "p", "]", ")", "(", ";", "B", "[", "p", "d", "]", ")", ")">>)

\* The tree of tests/tree.rs with two variations has been rendered.
C11_Witness ==
    /\ RenderedTree
    /\ tree.nodes = TestNodes
    /\ Len(tree.variations) = 2
    /\ CountChar(sgf, 40) = 3

\* The shape of a tree: the length of its chain and the shapes of its variations.
RECURSIVE Shape(_)
Shape(t) ==
    [chain |-> Len(t.nodes),
     variations |-> [k \in 1..Len(t.variations) |-> Shape(t.variations[k])]]

\* C12: parse builds the tree shape of the grammar: the chain n1..nk of a
\* game-tree and its m nested game-trees as variations. What parse returns
\* then determines the chain length and the variations of the tree that was
\* written, so two texts that parse to the same result have the same shape.
C12_ShapeOfGrammar ==
    (pc = "compared" /\ result.st = "ok" /\ other.result.st = "ok"
            /\ SameParsed(result.tree.root, other.result.tree.root))
        => Shape(tree) = Shape(other.tree)

-----------------------------------------------------------------------------
(* The tree model (model.rs): the query methods of a GameTree and the        *)
(* iterator over one line of play.                                           *)

\* The largest element of a set of naturals: Iterator::max, None on no element.
Max(S) == CHOOSE m \in S : \A x \in S : x <= m

RECURSIVE count_max_nodes(_)
\* A count that adds the variations up instead of taking the longest.
count_all_nodes(t) ==
    LET counts == [k \in 1..Len(t.variations) |-> count_max_nodes(t.variations[k])]
        total[k \in 0..Len(counts)] == IF k = 0 THEN 0 ELSE total[k - 1] + counts[k]
    IN Len(t.nodes) + total[Len(counts)]

\* GameTree::count_max_nodes.
count_max_nodes(t) ==
    LET count == Len(t.nodes)
        counts == {count_max_nodes(t.variations[k]) : k \in 1..Len(t.variations)}
        variation_count == IF counts = {} THEN 0 ELSE Max(counts)
    IN count + variation_count

\* node.tokens.iter().any(|t| matches the variant).
HasToken(n, variant) == \E k \in 1..Len(n) : n[k].tag = variant

RECURSIVE NodesWith(_, _)
\* A collection that pushes a chain node once for every token of the variant
\* it holds.
NodesWithPerToken(t, variant) ==
    LET matches(n) == Cardinality({j \in 1..Len(n) : n[j].tag = variant})
        own == Concat([k \in 1..Len(t.nodes) |->
                        [j \in 1..matches(t.nodes[k]) |-> t.nodes[k]]])
        tmp == [k \in 1..Len(t.variations) |-> NodesWith(t.variations[k], variant)]
    IN own \o Concat(tmp)

\* The chain nodes that hold a token of the variant, then, for each variation
\* in order, what the same collection returns for it.
NodesWith(t, variant) ==
    LET own == SelectSeq(t.nodes, LAMBDA n : HasToken(n, variant))
        tmp == [k \in 1..Len(t.variations) |-> NodesWith(t.variations[k], variant)]
    IN own \o Concat(tmp)

\* GameTree::get_unknown_nodes.
get_unknown_nodes(t) == NodesWith(t, "Unknown")

\* GameTree::get_invalid_nodes.
get_invalid_nodes(t) == NodesWith(t, "Invalid")

\* GameTreeIterator::new.
new(game_tree) == [tree |-> game_tree, index |-> 0, variation |-> 0]

\* A pick_variation that stores the index without comparing it with the number
\* of variations.
pick_variation_unchecked(self, variation) ==
    [self |-> [self EXCEPT !.variation = variation], ret |-> "Ok"]

\* A pick_variation that accepts the index one past the last variation.
pick_variation_off_by_one(self, variation) ==
    IF variation <= Len(self.tree.variations)
    THEN [self |-> [self EXCEPT !.variation = variation], ret |-> "Ok"]
    ELSE [self |-> self, ret |-> "Err"]

\* GameTreeIterator::pick_variation.
pick_variation(self, variation) ==
    IF variation < Len(self.tree.variations)
    THEN [self |-> [self EXCEPT !.variation = variation], ret |-> "Ok"]
    ELSE [self |-> self, ret |-> "Err"]

\* Option<&GameNode>.
Some(n) == [some |-> TRUE, node |-> n]
NoItem == [some |-> FALSE]

\* Iterator::next of GameTreeIterator: the node at index, or a descent into the
\* selected variation and the call repeated there, or None. An index outside
\* the variations is a panic.
RECURSIVE next(_)
\* A next() that enters the selected variation at the position it had reached
\* in the chain it leaves.
next_keeping_index(self) ==
    IF self.index < Len(self.tree.nodes)
    THEN [st |-> "ok", self |-> [self EXCEPT !.index = self.index + 1],
          item |-> Some(self.tree.nodes[self.index + 1])]
    ELSE IF self.tree.variations # <<>>
         THEN next([tree |-> self.tree.variations[self.variation + 1],
                    index |-> self.index, variation |-> 0])
         ELSE [st |-> "ok", self |-> self, item |-> NoItem]

\* A next() that enters the selected variation without resetting the selected
\* variation to 0.
next_keeping_variation(self) ==
    IF self.index < Len(self.tree.nodes)
    THEN [st |-> "ok", self |-> [self EXCEPT !.index = self.index + 1],
          item |-> Some(self.tree.nodes[self.index + 1])]
    ELSE IF self.tree.variations # <<>>
         THEN IF self.variation < Len(self.tree.variations)
              THEN next([tree |-> self.tree.variations[self.variation + 1],
                         index |-> 0, variation |-> self.variation])
              ELSE [st |-> "panic"]
         ELSE [st |-> "ok", self |-> self, item |-> NoItem]

next(self) ==
    IF self.index < Len(self.tree.nodes)
    THEN [st |-> "ok", self |-> [self EXCEPT !.index = self.index + 1],
          item |-> Some(self.tree.nodes[self.index + 1])]
    ELSE IF self.tree.variations # <<>>
         THEN IF self.variation < Len(self.tree.variations)
              THEN next(new(self.tree.variations[self.variation + 1]))
              ELSE [st |-> "panic"]
         ELSE [st |-> "ok", self |-> self, item |-> NoItem]

-----------------------------------------------------------------------------
(* The traversal scenario: a query method is called on a tree, or an         *)
(* iterator is made and driven by next() and pick_variation() calls.         *)

\* The longest chain of a root tree, and the most variations of a tree.
MaxChain == 2
MaxVariations == 2

\* Nodes of the scenario's trees: moves, a node with an unrecognized property,
\* one with an invalid one, and one with two unrecognized properties around a
\* move.
IterNode == [
    dc |-> Decoded(<< <<Id.B, Str(<<"d", "c">>)>> >>),
    ef |-> Decoded(<< <<Id.W, Str(<<"e", "f">>)>> >>),
    aa |-> Decoded(<< <<Id.B, Str(<<"a", "a">>)>> >>),
    cc |-> Decoded(<< <<Id.B, Str(<<"c", "c">>)>> >>),
    unknown |-> Decoded(<< <<Str(<<"F", "O">>), Str(<<"a", "s", "d", "f">>)>> >>),
    invalid |-> Decoded(<< <<Id.W, Str(<<"f", "o", "o", "b", "a", "r">>)>> >>),
    unknowns |-> Decoded(<< <<Str(<<"F", "O">>), Str(<<"a">>)>>,
                          <<Id.B, Str(<<"b", "b">>)>>,
                          <<Str(<<"F", "F">>), Str(<<"b">>)>> >>)]

\* The chains of the root trees, over the nodes N: B[dc] followed by up to
\* MaxChain - 1 further nodes.
RootChains(N) ==
    UNION {{<<N.dc>> \o c : c \in [1..k -> {N.dc, N.ef, N.unknown}]} :
                k \in 0..(MaxChain - 1)}

\* The trees that occur as variations, over the nodes N: three without
\* variations, and one with two variations of its own.
VariationTrees(N) ==
    {Leaf(<<N.aa>>), Leaf(<<N.cc>>),
     Leaf(<<N.unknowns, N.aa>>),
     [nodes |-> <<N.ef>>,
      variations |-> <<Leaf(<<N.aa>>), Leaf(<<N.cc, N.invalid>>)>>]}

\* The lists of variations of a root tree, over the variation trees V.
VariationLists(V) == UNION {[1..k -> V] : k \in 0..MaxVariations}

\* The default tree, and the trees the grammar describes (a chain of at least
\* one node, followed by no, one or several variations), over the nodes N.
TreesWith(N) ==
    {[nodes |-> <<>>, variations |-> <<>>]}
        \cup {[nodes |-> c, variations |-> v] :
                c \in RootChains(N),
                v \in UNION {VariationLists(V) : V \in {VariationTrees(N)}}}

\* The trees traversed.
IterTrees == UNION {TreesWith(N) : N \in {IterNode}}

InitIter ==
    /\ overflow_checks \in BOOLEAN
    /\ pc = "tree"
    /\ tree \in IterTrees
    /\ NoIteration
    /\ ident = None /\ value = None /\ token = None /\ text = None /\ token2 = None
    /\ node = None /\ node_text = None
    /\ sgf = None /\ edited = FALSE /\ result = None /\ other = None

\* let count = tree.count_max_nodes().
CountMaxNodes ==
    /\ pc = "tree"
    /\ answer' = [method |-> "count_max_nodes", v |-> count_max_nodes(tree)]
    /\ pc' = "queried"
    /\ UNCHANGED <<overflow_checks, codecVars, nodeVars, parseVars,
                   iterator, yielded, last, chosen, picked>>

\* let unknowns = tree.get_unknown_nodes().
GetUnknownNodes ==
    /\ pc = "tree"
    /\ answer' = [method |-> "get_unknown_nodes", v |-> get_unknown_nodes(tree)]
    /\ pc' = "queried"
    /\ UNCHANGED <<overflow_checks, codecVars, nodeVars, parseVars,
                   iterator, yielded, last, chosen, picked>>

\* let invalids = tree.get_invalid_nodes().
GetInvalidNodes ==
    /\ pc = "tree"
    /\ answer' = [method |-> "get_invalid_nodes", v |-> get_invalid_nodes(tree)]
    /\ pc' = "queried"
    /\ UNCHANGED <<overflow_checks, codecVars, nodeVars, parseVars,
                   iterator, yielded, last, chosen, picked>>

\* let mut iter = tree.iter().
Iter ==
    /\ pc = "tree"
    /\ iterator' = new(tree)
    /\ yielded' = <<>>
    /\ last' = [method |-> "iter"]
    /\ chosen' = -1
    /\ picked' = FALSE
    /\ pc' = "iterating"
    /\ UNCHANGED <<overflow_checks, codecVars, nodeVars, parseVars, answer>>

\* iter.pick_variation(variation), for an index in range or just outside it.
PickVariation ==
    /\ pc = "iterating"
    /\ \E variation \in 0..MaxVariations :
        \E r \in {pick_variation(iterator, variation)} :
            /\ iterator' = r.self
            /\ last' = [method |-> "pick_variation", self |-> iterator,
                        variation |-> variation, ret |-> r.ret]
            /\ chosen' = IF r.ret = "Ok" THEN variation ELSE chosen
    /\ picked' = TRUE
    /\ UNCHANGED <<overflow_checks, pc, codecVars, nodeVars, parseVars, yielded, answer>>

\* iter.next(). The call after the one that returned None returns None again.
IterNext ==
    /\ pc = "iterating"
    /\ \E r \in {next(iterator)} :
        /\ r.st = "ok"
        /\ iterator' = r.self
        /\ yielded' = IF r.item.some THEN Append(yielded, r.item.node) ELSE yielded
        /\ last' = [method |-> "next", self |-> iterator, chosen |-> chosen,
                    ret |-> r.item]
        /\ chosen' = IF r.self.tree = iterator.tree THEN chosen ELSE -1
    /\ UNCHANGED <<overflow_checks, pc, codecVars, nodeVars, parseVars, picked, answer>>

NextIter ==
    \/ CountMaxNodes \/ GetUnknownNodes \/ GetInvalidNodes
    \/ Iter \/ PickVariation \/ IterNext

SpecIter == InitIter /\ [][NextIter]_vars

\* Trees built by hand from the public fields, over the nodes N: an empty root
\* chain with two variations, a variation with an empty chain and variations
\* of its own, a variation without any node, a variation with a single
\* variation, and empty chains nested three deep.
HandBuiltTrees(N) ==
    {[nodes |-> <<>>, variations |-> <<Leaf(<<N.aa>>), Leaf(<<N.cc>>)>>],
     [nodes |-> <<N.dc>>,
      variations |-> <<[nodes |-> <<>>,
                        variations |-> <<Leaf(<<N.aa>>), Leaf(<<N.cc>>)>>],
                       Leaf(<<N.cc>>)>>],
     [nodes |-> <<N.dc>>, variations |-> <<Leaf(<<>>)>>],
     [nodes |-> <<N.dc>>,
      variations |-> <<Leaf(<<N.aa>>),
                       [nodes |-> <<N.ef>>, variations |-> <<Leaf(<<N.cc>>)>>]>>],
     [nodes |-> <<N.dc>>,
      variations |-> <<Leaf(<<N.aa>>),
                       [nodes |-> <<>>,
                        variations |-> <<Leaf(<<N.cc>>),
                                         [nodes |-> <<>>,
                                          variations |-> <<Leaf(<<N.aa, N.cc>>)>>]>>]>>]}

\* Every tree walked: the trees the parser builds and the trees built by hand.
WalkTrees == UNION {TreesWith(N) \cup HandBuiltTrees(N) : N \in {IterNode}}

InitWalk ==
    /\ overflow_checks \in BOOLEAN
    /\ pc = "tree"
    /\ tree \in WalkTrees
    /\ NoIteration
    /\ ident = None /\ value = None /\ token = None /\ text = None /\ token2 = None
    /\ node = None /\ node_text = None
    /\ sgf = None /\ edited = FALSE /\ result = None /\ other = None

\* The traversal scenario over every tree, hand-built ones included.
SpecWalk == InitWalk /\ [][NextIter]_vars

-----------------------------------------------------------------------------
(* Claims about the tree model, checked under SpecIter *)

\* Whether the sequence p is a prefix of the sequence s.
IsPrefix(p, s) == Len(p) <= Len(s) /\ SubSeq(s, 1, Len(p)) = p

\* The line of play that takes the first variation at every branch.
RECURSIVE DefaultLine(_)
DefaultLine(t) ==
    t.nodes \o (IF t.variations = <<>> THEN <<>> ELSE DefaultLine(t.variations[1]))

\* Every line of play of a tree: its chain, continued by a line of play of one
\* of its variations when it has any.
RECURSIVE LinesOfPlay(_)
LinesOfPlay(t) ==
    IF t.variations = <<>> THEN {t.nodes}
    ELSE UNION {{t.nodes \o l : l \in LinesOfPlay(t.variations[k])} :
                    k \in 1..Len(t.variations)}

\* The last call on the iterator was a next() that returned None.
Exhausted == pc = "iterating" /\ last.method = "next" /\ ~last.ret.some

\* The tree of "(;B[dc];W[ef](;B[aa])(;B[cc]))".
BranchExample ==
    [nodes |-> <<IterNode.dc, IterNode.ef>>,
     variations |-> <<Leaf(<<IterNode.aa>>), Leaf(<<IterNode.cc>>)>>]

\* C13: iter() yields the nodes of one line of play in order: the chain of the
\* current tree, then the nodes of the selected variation, recursively, and
\* None only when the chain of a tree without variations is exhausted. Without
\* a pick_variation call the line takes variation 0 everywhere; the branch
\* example yields B[dc], W[ef], B[aa] and then None.
C13_LineOfPlay ==
    pc = "iterating" =>
        /\ \E l \in LinesOfPlay(tree) : IsPrefix(yielded, l)
        /\ ~picked => IsPrefix(yielded, DefaultLine(tree))
        /\ Exhausted =>
            /\ yielded \in LinesOfPlay(tree)
            /\ iterator.tree.variations = <<>>
            /\ iterator.index = Len(iterator.tree.nodes)
            /\ ~picked => yielded = DefaultLine(tree)
            /\ (~picked /\ tree = BranchExample)
                    => yielded = <<IterNode.dc, IterNode.ef, IterNode.aa>>
        /\ (last.method = "next" /\ last.ret.some) =>
            /\ yielded # <<>>
            /\ last.ret.node = yielded[Len(yielded)]

\* The branch example was iterated to the end without a pick_variation call.
C13_Witness ==
    /\ Exhausted
    /\ ~picked
    /\ tree = BranchExample
    /\ Len(yielded) = 3

\* The last call was a next() made when the chain of the tree being traversed
\* was exhausted and the tree had variations: the call entered a variation.
EnteredVariation ==
    /\ pc = "iterating" /\ last.method = "next"
    /\ last.self.index >= Len(last.self.tree.nodes)
    /\ last.self.tree.variations # <<>>

\* C14: pick_variation(i) returns an error and leaves the iterator (tree,
\* index, variation) unchanged when i is not less than the number of variations
\* of the tree being traversed; otherwise it returns Ok and changes only the
\* selected variation, and the variation last selected that way is the one the
\* iterator enters when the chain is exhausted.
C14_PickVariation ==
    /\ (pc = "iterating" /\ last.method = "pick_variation") =>
        IF last.variation >= Len(last.self.tree.variations)
        THEN last.ret = "Err" /\ iterator = last.self
        ELSE /\ last.ret = "Ok"
             /\ iterator.tree = last.self.tree
             /\ iterator.index = last.self.index
             /\ iterator.variation = last.variation
    /\ (EnteredVariation /\ last.chosen >= 0) =>
        /\ last.chosen < Len(last.self.tree.variations)
        /\ iterator.tree = last.self.tree.variations[last.chosen + 1]
        /\ iterator.index = 1
        /\ last.ret = Some(iterator.tree.nodes[1])

\* The second variation was selected in a tree with a chain of two nodes, and
\* the iterator has entered it after the chain: the third node yielded is the
\* first node of the second variation.
C14_Witness ==
    /\ EnteredVariation
    /\ last.chosen = 1
    /\ Len(last.self.tree.nodes) = 2
    /\ Len(yielded) = 3
    /\ yielded[3] = last.self.tree.variations[2].nodes[1]
    /\ yielded[3] # last.self.tree.variations[1].nodes[1]

\* Every node of a tree in depth-first order: the chain, then the nodes of
\* each variation in variation order.
RECURSIVE AllNodes(_)
AllNodes(t) ==
    t.nodes \o Concat([k \in 1..Len(t.variations) |-> AllNodes(t.variations[k])])

\* The nodes of the sequence that hold at least one token of the variant, each
\* once, in the order of the sequence.
Holding(nodes, variant) ==
    LET at == {k \in 1..Len(nodes) :
                    Cardinality({j \in 1..Len(nodes[k]) : nodes[k][j].tag = variant}) >= 1}
        nth[i \in 0..Len(nodes)] ==
            IF i = 0 THEN <<>>
            ELSE IF i \in at THEN Append(nth[i - 1], nodes[i]) ELSE nth[i - 1]
    IN nth[Len(nodes)]

\* C15: get_unknown_nodes() returns exactly the nodes of the whole tree that
\* hold at least one Unknown token, each node once, in depth-first order (the
\* chain, then each variation in order); get_invalid_nodes() does the same for
\* Invalid tokens; both are empty when the tree holds no such token.
C15_CollectedNodes ==
    /\ (pc = "queried" /\ answer.method = "get_unknown_nodes") =>
        /\ answer.v = Holding(AllNodes(tree), "Unknown")
        /\ (\A k \in 1..Len(AllNodes(tree)) : \A j \in 1..Len(AllNodes(tree)[k]) :
                AllNodes(tree)[k][j].tag # "Unknown") => answer.v = <<>>
    /\ (pc = "queried" /\ answer.method = "get_invalid_nodes") =>
        /\ answer.v = Holding(AllNodes(tree), "Invalid")
        /\ (\A k \in 1..Len(AllNodes(tree)) : \A j \in 1..Len(AllNodes(tree)[k]) :
                AllNodes(tree)[k][j].tag # "Invalid") => answer.v = <<>>

\* get_unknown_nodes() was called on a tree with an unrecognized property in
\* its chain and a node with two unrecognized properties in a variation, and
\* returned the two nodes, once each.
C15_Witness ==
    /\ pc = "queried" /\ answer.method = "get_unknown_nodes"
    /\ tree.nodes = <<IterNode.dc, IterNode.unknown>>
    /\ Len(tree.variations) = 2
    /\ answer.v = <<IterNode.unknown, IterNode.unknowns>>

\* The most nodes a run of the iterator can have yielded when it is exhausted,
\* given that it has yielded n nodes and stands at self.
Reach(self, n) == n + count_max_nodes(self.tree) - self.index

\* The indexes of the variations of t that have the longest line of play.
LongestVariations(t) ==
    {i \in 0..(Len(t.variations) - 1) :
        \A k \in 1..Len(t.variations) :
            count_max_nodes(t.variations[k]) <= count_max_nodes(t.variations[i + 1])}

-----------------------------------------------------------------------------
(* Claims about moves, coordinates and sizes, checked under SpecCodec *)

\* The colour a move identifier stands for.
MoveColor(id) == IF id = Id.B THEN "Black" ELSE "White"

\* C17: for the move identifiers B and W an empty value decodes to Move with
\* action Pass, a valid two-letter value decodes to Move with a coordinate, and
\* every other non-empty value decodes to Invalid; Pass encodes back to the
\* identifier with an empty bracket pair.
C17_MoveValues ==
    (pc # "start" /\ UpperLetters(ident) \in MoveIds) =>
        /\ value = <<>> =>
            token = [tag |-> "Move", color |-> MoveColor(UpperLetters(ident)),
                     action |-> [kind |-> "Pass"]]
        /\ TwoLetterCode(value) =>
            /\ token # Panicked
            /\ token.tag = "Move"
            /\ token.color = MoveColor(UpperLetters(ident))
            /\ token.action.kind = "Move"
        /\ (value # <<>> /\ ~TwoLetterCode(value)) =>
            token = [tag |-> "Invalid", ident |-> ident, value |-> value]
        /\ (pc \in {"encoded", "redecoded"} /\ value = <<>>) =>
            text = Ok(UpperLetters(ident) \o Str(<<"[", "]">>))

\* Whether v is a code of two lowercase letters.
LowercaseCode(v) == Len(v) = 2 /\ IsAsciiLower(v[1]) /\ IsAsciiLower(v[2])

\* The position of a lowercase letter in the alphabet, a = 1.
AlphabetPosition(c) == c - 96

\* The number of a lowercase letter when the letter i is skipped: the letters
\* before i keep their position, the letters after it are one less.
SkippingI(c) == IF AlphabetPosition(c) >= 9 THEN AlphabetPosition(c) - 1
                ELSE AlphabetPosition(c)

\* A move at the coordinate (x, y).
MoveAt(id, x, y) ==
    [tag |-> "Move", color |-> MoveColor(id),
     action |-> [kind |-> "Move", x |-> x, y |-> y]]

C19_UppercaseMoves ==
    /\ (pc # "start" /\ ident = Id.B /\ value = Str(<<"A", "A">>)) =>
        /\ token = MoveAt(Id.B, 27, 27)
        /\ pc \in {"encoded", "redecoded"} => text = Ok(Str(<<"B", "[", "A", "A", "]">>))
    /\ (pc # "start" /\ ident = Id.W /\ value = Str(<<"K", "K">>)) =>
        /\ token = MoveAt(Id.W, 37, 37)
        /\ pc \in {"encoded", "redecoded"} => text = Ok(Str(<<"W", "[", "K", "K", "]">>))
    /\ (pc # "start" /\ UpperLetters(ident) \in MoveIds /\ Len(value) = 2
            /\ IsAsciiUpper(value[1]) /\ IsAsciiUpper(value[2])) =>
        /\ token # Panicked
        /\ token # from_pair(ident, ToLower(value))
        /\ pc \in {"encoded", "redecoded"} => text = Ok(Prop(UpperLetters(ident), value))

\* The token Size(w, h), the numbers in decimal digits.
SizeOf(w, h) == [tag |-> "Size", w |-> w, h |-> h]

\* C20: a size value containing a colon decodes to Size(width, height) from the
\* two integers around the colon, a value without a colon decodes as one
\* integer n to Size(n, n), and anything else is Invalid; Size(w, h) encodes as
\* "SZ[w]" when w = h and as "SZ[w:h]" otherwise, so "19:19" is written back
\* as "SZ[19]".
C20_Size ==
    (pc # "start" /\ UpperLetters(ident) = Id.SZ) =>
        LET colon == Find(value, 58)
            width == ParseU32(Take(value, colon - 1))
            height == ParseU32(Drop(value, colon))
            n == ParseU32(value)
        IN /\ token = IF colon > 0 /\ width.ok /\ height.ok THEN SizeOf(width.v, height.v)
                      ELSE IF colon = 0 /\ n.ok THEN SizeOf(n.v, n.v)
                      ELSE [tag |-> "Invalid", ident |-> ident, value |-> value]
           /\ (pc \in {"encoded", "redecoded"} /\ token.tag = "Size") =>
                text = Ok(Str(<<"S", "Z", "[">>)
                            \o (IF token.w = token.h THEN token.w
                                ELSE token.w \o Str(<<":">>) \o token.h)
                            \o Str(<<"]">>))
           /\ value = Str(<<"1", "5", ":", "1", "7">>) =>
                /\ token = SizeOf(Str(<<"1", "5">>), Str(<<"1", "7">>))
                /\ pc \in {"encoded", "redecoded"}
                    => text = Ok(Str(<<"S", "Z", "[", "1", "5", ":", "1", "7", "]">>))
           /\ value \in {Str(<<"1", "9">>), Str(<<"1", "9", ":", "1", "9">>)} =>
                /\ token = SizeOf(Str(<<"1", "9">>), Str(<<"1", "9">>))
                /\ pc \in {"encoded", "redecoded"}
                    => text = Ok(Str(<<"S", "Z", "[", "1", "9", "]">>))

\* "19:19" has been decoded to Size(19, 19) and written back as "SZ[19]".
C20_Witness ==
    /\ pc = "encoded"
    /\ ident = Id.SZ
    /\ value = Str(<<"1", "9", ":", "1", "9">>)
    /\ token.tag = "Size"
    /\ text = Ok(Str(<<"S", "Z", "[", "1", "9", "]">>))

-----------------------------------------------------------------------------
(* Claims about results, game types, labels and charsets, checked under      *)
(* SpecCodec                                                                 *)

\* The token Result(outcome).
ResultOf(outcome) == [tag |-> "Result", outcome |-> outcome]

\* The outcome a result value names after the colour: forfeit, resignation,
\* time, or a score; none when the text is none of these.
OutcomeAfterPlus(winner, right) ==
    IF right \in {Lit.F, Lit.Forfeit} THEN [ok |-> TRUE, o |-> [kind |-> "WinnerByForfeit", color |-> winner]]
    ELSE IF right \in {Lit.R, Lit.Resign} THEN [ok |-> TRUE, o |-> [kind |-> "WinnerByResign", color |-> winner]]
    ELSE IF right \in {Lit.T, Lit.Time} THEN [ok |-> TRUE, o |-> [kind |-> "WinnerByTime", color |-> winner]]
    ELSE IF ParseF32(right).ok
         THEN [ok |-> TRUE, o |-> [kind |-> "WinnerByPoints", color |-> winner,
                                   points |-> ParseF32(right).v]]
    ELSE [ok |-> FALSE]

AllDigits(v) == v # <<>> /\ \A i \in 1..Len(v) : IsDigit(v[i])

\* Whether v is a decimal integer with an optional sign.
SignedDigits(v) == v # <<>> /\ AllDigits(IF v[1] \in {43, 45} THEN Tail(v) ELSE v)

\* C22: for the identifier GM the integer 1 decodes to Game(Go), every other
\* integer value, whatever its magnitude, decodes to Game(Other(n)) with n the
\* number written, and only a value that is not a number decodes to Invalid.
C22_GameType ==
    (pc # "start" /\ UpperLetters(ident) = Id.GM) =>
        /\ AllDigits(value) =>
            token = IF StripZeros(value) = Lit.d1
                    THEN [tag |-> "Game", game |-> [kind |-> "Go"]]
                    ELSE [tag |-> "Game", game |-> [kind |-> "Other", n |-> StripZeros(value)]]
        /\ ~SignedDigits(value) =>
            token = [tag |-> "Invalid", ident |-> ident, value |-> value]
        /\ token.tag = "Invalid" => ~AllDigits(value)

\* The token Label(label, coordinate).
LabelOf(label, coordinate) == [tag |-> "Label", label |-> label, coordinate |-> coordinate]

\* C23: for the identifier LB a value of fewer than 4 characters is Invalid; for
\* a longer value the first two characters are decoded as the coordinate, the
\* third character is the separator and is dropped, and the characters after
\* it are the label text; no value makes from_pair panic. The label encodes as
\* the coordinate letters, ':' and the label text: "kk:foo" decodes to
\* Label("foo", (11, 11)) and renders "LB[kk:foo]".
C23_LabelDecoding ==
    (pc # "start" /\ UpperLetters(ident) = Id.LB) =>
        /\ token # Panicked
        /\ Len(value) < 4 => token = [tag |-> "Invalid", ident |-> ident, value |-> value]
        /\ (Len(value) >= 4 /\ TwoLetterCode(Take(value, 2))) =>
            /\ token = LabelOf(Drop(value, 3),
                               <<AlphabetPosition(LowerChar(value[1])),
                                 AlphabetPosition(LowerChar(value[2]))>>)
            /\ pc \in {"encoded", "redecoded"} =>
                text = Ok(Str(<<"L", "B", "[">>) \o ToLower(Take(value, 2)) \o Str(<<":">>)
                            \o Drop(value, 3) \o Str(<<"]">>))
        /\ value = Str(<<"k", "k", ":", "f", "o", "o">>) =>
            /\ token = LabelOf(Str(<<"f", "o", "o">>), <<11, 11>>)
            /\ pc \in {"encoded", "redecoded"} =>
                text = Ok(Str(<<"L", "B", "[", "k", "k", ":", "f", "o", "o", "]">>))

-----------------------------------------------------------------------------
(* Claims about texts without a game tree and about empty nodes, checked     *)
(* under SpecParse                                                           *)

\* GameTree::default().
DefaultTree == [nodes |-> <<>>, variations |-> <<>>]

\* C24: for an input that contains no game-tree at all (no opening parenthesis,
\* for instance the empty text) parse returns Ok with the default empty tree
\* {nodes: [], variations: []}, not an error.
C24_NoGameTree ==
    (pc = "parsed" /\ CountChar(sgf, 40) = 0) =>
        /\ result.st = "ok"
        /\ result.tree = DefaultTree

\* The text with its bracketed values removed: what is left are identifiers
\* and the structure characters.
RECURSIVE Structure(_)
Structure(s) ==
    IF s = <<>> THEN <<>>
    ELSE IF Head(s) = 91 /\ Find(s, 93) > 0 THEN Structure(Drop(s, Find(s, 93)))
    ELSE <<Head(s)>> \o Structure(Tail(s))

\* The number of nodes of a text that have no property: a ';' directly followed
\* by ';', '(' or ')'.
EmptyNodes(s) ==
    Cardinality({i \in 1..(Len(Structure(s)) - 1) :
                    Structure(s)[i] = 59 /\ Structure(s)[i + 1] \in {59, 40, 41}})

\* The number of nodes without tokens among a parsed node and the nodes below.
RECURSIVE ParsedEmptyNodes(_)
ParsedEmptyNodes(n) ==
    LET below[k \in 0..Len(n.children)] ==
            IF k = 0 THEN 0 ELSE below[k - 1] + ParsedEmptyNodes(n.children[k])
    IN (IF n.tokens = <<>> THEN 1 ELSE 0) + below[Len(n.children)]

\* C25: a node with zero properties (a ';' directly followed by ';', '(' or
\* ')') is valid input: parse succeeds on a conforming text that has such
\* nodes, and each of them is in the result as a node with an empty token list.
C25_EmptyNode ==
    (pc = "parsed" /\ Conforms(sgf) /\ EmptyNodes(sgf) > 0) =>
        /\ result.st = "ok"
        /\ ParsedEmptyNodes(result.tree.root) = EmptyNodes(sgf)

-----------------------------------------------------------------------------
(* Claims about decoded coordinates and the charset, checked under SpecCodec *)

\* The coordinate a decoded token carries: that of a move, or of a mark or a
\* stone.
CoordinateOf(t) ==
    IF t.tag = "Move" THEN <<t.action.x, t.action.y>> ELSE t.coordinate

\* C26: every coordinate obtained by decoding a two-character value is 1-based:
\* for every pair of characters that is accepted as a coordinate the call
\* returns, both components are at least 1, and each is the character code
\* (of the lowercased character) minus 96 without unsigned 8-bit underflow or
\* wrap-around.
C26_OneBasedCoordinates ==
    (pc # "start" /\ UpperLetters(ident) \in CoordinateIds
            /\ Len(value) = 2 /\ ByteLen(value) = 2) =>
        /\ token # Panicked
        /\ token.tag \in {"Move", "Square", "Triangle", "Add"}
        /\ \A k \in 1..2 :
            /\ CoordinateOf(token)[k] >= 1
            /\ CoordinateOf(token)[k] = LowerChar(value[k]) - 96

\* The token Charset(UTF8).
CharsetUTF8 == [tag |-> "Charset", encoding |-> [kind |-> "UTF8"]]

\* C27: a tree parsed from a text whose root declares a charset other than
\* UTF-8 (CA with an ISO-8859 name) is serialized and the text parsed again:
\* the root then holds Charset(UTF8) and no longer the Charset(Other) token.
\* The charset token of the second tree is the one decoded from the property
\* the first token encodes to.
C27_CharsetBecomesUTF8 ==
    (pc = "redecoded" /\ UpperLetters(ident) = Id.CA
            /\ token.tag = "Charset" /\ token.encoding.kind = "Other") =>
        /\ token2 = CharsetUTF8
        /\ token2 # token

-----------------------------------------------------------------------------
(* Claims about the iterator over any tree, checked under SpecWalk *)

\* The nesting depth of a tree: 0 without variations, else one more than the
\* deepest variation.
RECURSIVE Depth(_)
Depth(t) ==
    IF t.variations = <<>> THEN 0
    ELSE 1 + Max({Depth(t.variations[k]) : k \in 1..Len(t.variations)})

\* The number of times a next() call made at self replaces the tree being
\* traversed by one of its variations before it returns.
RECURSIVE Descents(_)
Descents(self) ==
    IF self.index < Len(self.tree.nodes) \/ self.tree.variations = <<>> THEN 0
    ELSE 1 + Descents(new(self.tree.variations[self.variation + 1]))

\* C28: after any sequence of next() and pick_variation() calls on an iterator
\* over any finite tree, the selected variation index is less than the number
\* of variations of the tree being traversed whenever that tree has
\* variations, so next() never indexes out of bounds (it returns, it does not
\* panic), and the number of descents of a next() call is bounded by the depth
\* of the tree: each descent enters a tree that is less deep.
C28_SelectionInBounds ==
    pc = "iterating" =>
        /\ iterator.tree.variations # <<>>
                => iterator.variation < Len(iterator.tree.variations)
        /\ next(iterator).st = "ok"
        /\ Descents(iterator) <= Depth(iterator.tree)
        /\ Depth(iterator.tree) <= Depth(tree)
        /\ last.method = "next" =>
                Depth(iterator.tree) + Descents(last.self) <= Depth(last.self.tree)

\* After calls of pick_variation, a next() call has descended twice before it
\* returned a node.
C28_Witness ==
    /\ pc = "iterating" /\ last.method = "next"
    /\ picked
    /\ Descents(last.self) >= 2
    /\ last.ret.some

\* The tree a descent through the variations arrives at: the tree itself
\* unless its chain is empty and it has variations, in which case the descent
\* goes on through its variation 0.
RECURSIVE Settle(_)
Settle(t) ==
    IF t.nodes = <<>> /\ t.variations # <<>> THEN Settle(t.variations[1]) ELSE t

\* C29: when the iterator descends into a variation it resets its position to
\* 0 and its selected variation to 0. A successful pick_variation decides only
\* the next branch point reached: the descent takes the variation picked while
\* the tree was being traversed, or variation 0 when none was picked there,
\* and every further branch point is entered through variation 0 unless
\* pick_variation is called again on the tree then being traversed.
C29_ResetOnDescent ==
    EnteredVariation =>
        /\ iterator.variation = 0
        /\ iterator.index = IF last.ret.some THEN 1 ELSE 0
        /\ iterator.tree =
                Settle(last.self.tree.variations[
                            (IF last.chosen >= 0 THEN last.chosen ELSE 0) + 1])
        /\ last.ret = IF iterator.tree.nodes = <<>> THEN NoItem
                      ELSE Some(iterator.tree.nodes[1])
        /\ chosen = -1

\* The second variation of the root was picked and entered, and the branch
\* point inside it was then entered without another pick: through its first
\* variation, not its second.
C29_Witness ==
    /\ EnteredVariation
    /\ picked
    /\ last.chosen = -1
    /\ Len(tree.variations) = 2
    /\ last.self.tree = tree.variations[2]
    /\ Len(last.self.tree.variations) = 2
    /\ iterator.tree = last.self.tree.variations[1]
    /\ iterator.tree # last.self.tree.variations[2]

-----------------------------------------------------------------------------
(* Claims about the runs of a rendered node, checked under SpecNode *)

\* The identifier a token of the node is encoded with.
TokenIdent(k) == EncodedIdent(token_into_string(node[k]).s)

\* The bracketed value a token of the node is encoded with.
TokenValue(k) == EncodedValue(token_into_string(node[k]).s)

\* C30: in a node's rendering a token's bracketed value is appended to the
\* preceding run only when the token's identifier is identical to the
\* identifier of that run: the values of a run are the values of the tokens
\* that have exactly the run's identifier, and a token whose identifier
\* differs, including an Unknown or Invalid token whose stored identifier
\* merely begins with the previous identifier, heads or joins a run of its own
\* identifier.
C30_RunsByIdenticalIdentifier ==
    pc = "rendered" =>
        /\ node_text.st = "ok"
        /\ \A r \in 1..Len(NodeRuns) :
            /\ Len(NodeRuns[r].values)
                    = Cardinality({k \in 1..Len(node) : TokenIdent(k) = NodeRuns[r].ident})
            /\ \A j \in 1..Len(NodeRuns[r].values) :
                    \E k \in 1..Len(node) :
                        /\ TokenIdent(k) = NodeRuns[r].ident
                        /\ TokenValue(k) = NodeRuns[r].values[j]
        /\ \A k \in 1..Len(node) :
                \E r \in 1..Len(NodeRuns) : NodeRuns[r].ident = TokenIdent(k)

====
